---------------------------- MODULE Spec2Model ----------------------------
(***************************************************************************)
(* The domain registry of the desktop client (DomainUtil) and its callers: *)
(* the new-server form, the preset-organization bootstrap and the silent   *)
(* refresh started by initTabs.                                            *)
(*                                                                         *)
(* JavaScript strings are sequences of one-character strings, so that the  *)
(* substring tests of the code (indexOf, includes, startsWith, ===) are    *)
(* computed and not assumed.  Array indices are 0-based as in the code;    *)
(* the element at index i of the store is domains[i + 1].                  *)
(***************************************************************************)
EXTENDS Integers, Sequences, FiniteSets, TLC

(***************************************************************************)
(* Bounds of the model.                                                    *)
(***************************************************************************)
\* number of submissions of the new-server form in one run of the renderer
MaxForm == 1
\* number of records in the domain file when the renderer starts
MaxStore == 2

(***************************************************************************)
(* String literals of the source.                                          *)
(***************************************************************************)
\* '../renderer/img/icon.png'
defaultIconUrl ==
  <<".",".","/","r","e","n","d","e","r","e","r","/","i","m","g","/","i","c",
    "o","n",".","p","n","g">>

\* 'http'
HttpPrefix ==
  <<"h","t","t","p">>

\* 'localhost:'
LocalhostMarker ==
  <<"l","o","c","a","l","h","o","s","t",":">>

\* 'http://'
HttpScheme ==
  <<"h","t","t","p",":","/","/">>

\* 'https://'
HttpsScheme ==
  <<"h","t","t","p","s",":","/","/">>

\* the array ['zulipdev.org'], which indexOf() coerces to 'zulipdev.org'
whitelistDomains ==
  <<"z","u","l","i","p","d","e","v",".","o","r","g">>

\* 'certificate'
CertificateWord ==
  <<"c","e","r","t","i","f","i","c","a","t","e">>

\* '[object Object]': what toString() gives for a response object
ObjectObjectText ==
  <<"[","o","b","j","e","c","t"," ","O","b","j","e","c","t","]">>

\* 'Error: ': what Error.prototype.toString() puts before the message
ErrorPrefix ==
  <<"E","r","r","o","r",":"," ">>

\* 'This server has been added.'
DuplicateMessage ==
  <<"T","h","i","s"," ","s","e","r","v","e","r"," ","h","a","s"," ","b","e",
    "e","n"," ","a","d","d","e","d",".">>

\* 'Untrusted certificate.'
UntrustedMessage ==
  <<"U","n","t","r","u","s","t","e","d"," ","c","e","r","t","i","f","i","c",
    "a","t","e",".">>

\* '/server-icons'
ServerIconsDir ==
  <<"/","s","e","r","v","e","r","-","i","c","o","n","s">>

\* message of the TypeError raised by reading .url of a null array element
TypeErrorMessage ==
  <<"C","a","n","n","o","t"," ","r","e","a","d"," ","p","r","o","p","e","r",
    "t","y"," ","'","u","r","l","'"," ","o","f"," ","n","u","l","l">>

\* message of the TypeError path.extname raises for an argument that is
\* not a string (the wording depends on the version of Node):
\* 'Path must be a string. Received undefined'
PathTypeErrorMessage ==
  <<"P","a","t","h"," ","m","u","s","t"," ","b","e"," ","a"," ","s","t","r",
    "i","n","g","."," ","R","e","c","e","i","v","e","d"," ","u","n","d","e",
    "f","i","n","e","d">>

\* ' does not appear to be a valid Zulip server.'
InvalidServerText ==
  <<" ","d","o","e","s"," ","n","o","t"," ","a","p","p","e","a","r"," ","t",
    "o"," ","b","e"," ","a"," ","v","a","l","i","d"," ","Z","u","l","i","p",
    " ","s","e","r","v","e","r",".">>

\* ' does not have any organizations added.'
NoOrgsText ==
  <<" ","d","o","e","s"," ","n","o","t"," ","h","a","v","e"," ","a","n","y",
    " ","o","r","g","a","n","i","z","a","t","i","o","n","s"," ","a","d","d",
    "e","d",".">>

\* the printable ASCII characters in code order: Ascii[i] has char code 31 + i
\* (GRAVE stands for the grave accent, code 96, which no URL of the model holds)
Ascii ==
  <<" ","!","\"","#","$","%","&","'","(",")","*","+",",","-",".","/","0",
    "1","2","3","4","5","6","7","8","9",":",";","<","=",">","?","@","A","B",
    "C","D","E","F","G","H","I","J","K","L","M","N","O","P","Q","R","S","T",
    "U","V","W","X","Y","Z","[","\\","]","^","_","GRAVE","a","b","c","d","e",
    "f","g","h","i","j","k","l","m","n","o","p","q","r","s","t","u","v","w",
    "x","y","z","{","|","}","~">>

(***************************************************************************)
(* String operations of JavaScript.                                        *)
(***************************************************************************)
\* s.indexOf(p): the 0-based position of the first occurrence of p, or -1
IndexOf(s, p) ==
  LET hits == {i \in 0..(Len(s) - Len(p)) : SubSeq(s, i + 1, i + Len(p)) = p}
  IN IF hits = {} THEN -1 ELSE CHOOSE i \in hits : \A j \in hits : i <= j

\* s.lastIndexOf(p), or -1
LastIndexOf(s, p) ==
  LET hits == {i \in 0..(Len(s) - Len(p)) : SubSeq(s, i + 1, i + Len(p)) = p}
  IN IF hits = {} THEN -1 ELSE CHOOSE i \in hits : \A j \in hits : i >= j

\* s.includes(p)
Includes(s, p) == IndexOf(s, p) >= 0

\* s.startsWith(p)
StartsWith(s, p) == Len(s) >= Len(p) /\ SubSeq(s, 1, Len(p)) = p

\* s.charCodeAt(i) for the 0-based position i
CharCodeAt(s, i) ==
  31 + (CHOOSE k \in 1..Len(Ascii) : Ascii[k] = s[i + 1])

(***************************************************************************)
(* DomainUtil.formatUrl                                                    *)
(***************************************************************************)
\* formatUrl without the test for the prefix
formatUrlUntested(domain) ==
  IF IndexOf(domain, LocalhostMarker) >= 0
    THEN HttpScheme \o domain
    ELSE HttpsScheme \o domain

formatUrl(domain) ==
  LET hasPrefix == (IndexOf(domain, HttpPrefix) = 0)
  IN IF hasPrefix
       THEN domain
       ELSE IF IndexOf(domain, LocalhostMarker) >= 0
              THEN HttpScheme \o domain
              ELSE HttpsScheme \o domain

(***************************************************************************)
(* escape-html, as used for the alias: the five HTML-special characters    *)
(* become entities.                                                        *)
(***************************************************************************)
RECURSIVE escape(_)
escape(s) ==
  IF s = <<>> THEN <<>>
  ELSE LET c == Head(s)
           e == CASE c = "&" -> <<"&","a","m","p",";">>
                  [] c = "<" -> <<"&","l","t",";">>
                  [] c = ">" -> <<"&","g","t",";">>
                  [] c = "\"" -> <<"&","q","u","o","t",";">>
                  [] c = "'" -> <<"&","#","3","9",";">>
                  [] OTHER -> <<c>>
       IN e \o escape(Tail(s))

(***************************************************************************)
(* Messages (resources/messages.js): the texts shown for a server that     *)
(* cannot be verified.  Both begin with the domain.                        *)
(***************************************************************************)
invalidZulipServerError(domain) == domain \o InvalidServerText

noOrgsError(domain) == domain \o NoOrgsText

(***************************************************************************)
(* DomainUtil.generateFilePath: the name of the local icon file.           *)
(* The hash is a 32-bit integer; it is kept as two 16-bit halves so that   *)
(* the wrap-around of (hash * 33) ^ code is computed exactly.              *)
(***************************************************************************)
\* app.getPath('userData'), a directory of the host
userData == <<"/","u">>

Half == 65536

\* bitwise exclusive or of two naturals below 2^16
RECURSIVE BitXor(_, _)
BitXor(a, b) ==
  IF a = 0 THEN b
  ELSE IF b = 0 THEN a
  ELSE (((a % 2) + (b % 2)) % 2) + 2 * BitXor(a \div 2, b \div 2)

\* a round that adds the character code where the loop combines it with ^
HashStepPlus(hash, code) ==
  LET lo == hash.lo * 33 + code
      hi == hash.hi * 33 + (lo \div Half)
  IN [hi |-> hi % Half, lo |-> lo % Half]

\* one round of the loop: hash = (hash * 33) ^ url.charCodeAt(--len)
HashStep(hash, code) ==
  LET lo == hash.lo * 33
      hi == hash.hi * 33 + (lo \div Half)
  IN [hi |-> hi % Half, lo |-> BitXor(lo % Half, code)]

\* the loop of generateFilePath, from the last character to the first
RECURSIVE HashLoop(_, _, _)
HashLoop(url, len, hash) ==
  IF len = 0 THEN hash
  ELSE HashLoop(url, len - 1, HashStep(hash, CharCodeAt(url, len - 1)))

\* the decimal digits of hash >>> 0
RECURSIVE Decimal(_)
Decimal(hash) ==
  LET t == (hash.hi % 10) * Half + hash.lo
      q == [hi |-> hash.hi \div 10, lo |-> t \div 10]
      d == <<Ascii[17 + (t % 10)]>>
  IN IF q.hi = 0 /\ q.lo = 0 THEN d ELSE Decimal(q) \o d

\* path.extname(url): from the last dot of the last path segment
extname(url) ==
  LET slash == LastIndexOf(url, <<"/">>)
      base == SubSeq(url, slash + 2, Len(url))
      dot == LastIndexOf(base, <<".">>)
  IN IF dot <= 0 THEN <<>> ELSE SubSeq(base, dot + 1, Len(base))

\* s.split('?')[0]
BeforeQuery(s) ==
  LET q == IndexOf(s, <<"?">>)
  IN IF q < 0 THEN s ELSE SubSeq(s, 1, q)

urlHash(url) == HashLoop(url, Len(url), [hi |-> 0, lo |-> 5381])

generateFilePath(url) ==
  LET dir == userData \o ServerIconsDir
      extension == BeforeQuery(extname(url))
  IN dir \o <<"/">> \o Decimal(urlHash(url)) \o extension

(***************************************************************************)
(* JavaScript values that are thrown, rejected with or tested.             *)
(***************************************************************************)
Undefined == [t |-> "undefined"]

Null == [t |-> "null"]

Str(s) == [t |-> "string", s |-> s]

\* new Error(message)
ErrorObj(message) == [t |-> "Error", message |-> message]

\* the TypeError of reading a property of null
TypeErrorObj == [t |-> "TypeError", message |-> TypeErrorMessage]

\* the TypeError of path.extname(undefined)
PathTypeErrorObj == [t |-> "TypeError", message |-> PathTypeErrorMessage]

\* v.toString()
toString(v) ==
  CASE v.t = "string" -> v.s
    [] v.t = "Error" -> ErrorPrefix \o v.message
    [] v.t = "response" -> ObjectObjectText

\* err || ''
OrEmpty(err) ==
  IF err = Undefined \/ err = Null \/ err = Str(<<>>) THEN Str(<<>>) ELSE err

(***************************************************************************)
(* The environment: what the user types, what global_config.json presets,  *)
(* what the domain file holds at start, and what the network answers.      *)
(***************************************************************************)
\* 'a'
InputA ==
  <<"a">>

\* 'https://a/'
InputASlash ==
  <<"h","t","t","p","s",":","/","/","a","/">>

\* 'zulipdev.org'
InputDev ==
  <<"z","u","l","i","p","d","e","v",".","o","r","g">>

\* 'https://a'
UrlA ==
  <<"h","t","t","p","s",":","/","/","a">>

\* 'https://zulipdev.org'
UrlDev ==
  <<"h","t","t","p","s",":","/","/","z","u","l","i","p","d","e","v",".","o",
    "r","g">>

\* 'https://c'
UrlC ==
  <<"h","t","t","p","s",":","/","/","c">>

\* 'R&D'
NameRnD ==
  <<"R","&","D">>

\* 'Dev'
NameDev ==
  <<"D","e","v">>

\* '/i.png'
IconRelative ==
  <<"/","i",".","p","n","g">>

\* 'https://c/i.png?v=1'
IconAbsolute ==
  <<"h","t","t","p","s",":","/","/","c","/","i",".","p","n","g","?","v","=",
    "1">>

\* 'Zulip', the alias the constructor gives to the server of the old schema
ZulipAlias ==
  <<"Z","u","l","i","p">>

\* 'certificate has expired'
CertExpiredMessage ==
  <<"c","e","r","t","i","f","i","c","a","t","e"," ","h","a","s"," ","e","x",
    "p","i","r","e","d">>

\* 'connect ECONNREFUSED'
ConnRefusedMessage ==
  <<"c","o","n","n","e","c","t"," ","E","C","O","N","N","R","E","F","U","S",
    "E","D">>

\* 'Invalid URI'
InvalidUriMessage ==
  <<"I","n","v","a","l","i","d"," ","U","R","I">>

\* the values of the input field of the new-server form
FormInputs == {InputA, InputASlash, InputDev}

\* the input field left empty
EmptyInput == <<>>

\* the values of the input field, the empty one among them
FormTexts == {EmptyInput, InputDev}

\* the values of presetOrganizations, one with an empty entry among them
PresetTexts == {<<EmptyInput>>, <<InputA>>}

\* presetOrganizations of global_config.json: one organization
presetOrganizations == <<InputA>>

\* a global_config.json with two preset organizations
PresetPool == <<InputA, InputDev>>

\* a global_config.json whose preset organization is on the whitelist of
\* checkDomain
DevPreset == <<InputDev>>

\* the values of presetOrganizations the bootstrap is checked with
PresetConfigs == {presetOrganizations, PresetPool}

\* JSON bodies of /api/v1/server_settings; the first has no realm_icon
EmptyBody == [realm_name |-> NameDev]

BodyA ==
  [realm_icon |-> IconRelative, realm_uri |-> UrlA, realm_name |-> NameRnD]

BodyDev ==
  [realm_icon |-> IconAbsolute, realm_uri |-> UrlDev, realm_name |-> NameDev]

\* a response object of the request library
Response(statusCode, body) ==
  [t |-> "response", statusCode |-> statusCode, body |-> body]

NotJson == [json |-> FALSE]

Json(data) == [json |-> TRUE, data |-> data]

\* the arguments (error, response) of the callback of request()
CertFailure ==
  [error |-> ErrorObj(CertExpiredMessage), response |-> Undefined]

ConnFailure ==
  [error |-> ErrorObj(ConnRefusedMessage), response |-> Undefined]

NotFound == [error |-> Null, response |-> Response(404, NotJson)]

BadJson == [error |-> Null, response |-> Response(200, NotJson)]

Ok(data) == [error |-> Null, response |-> Response(200, Json(data))]

\* request() on a url without a host: the callback gets the error alone
InvalidUri ==
  [error |-> ErrorObj(InvalidUriMessage), response |-> Undefined]

SettingsReplies ==
  {CertFailure, ConnFailure, NotFound, BadJson,
   Ok(EmptyBody), Ok(BodyA), Ok(BodyDev)}

\* what happens to the download of an icon
IconReplies == {"finish", "finish404", "responseError", "requestError"}

\* the button the user presses in the certificate dialog: 0 is Yes, 1 is No
DialogAnswers == {0, 1}

\* the icon urls that getServerSettings can build from the bodies above
IconUrls == {UrlA \o IconRelative, UrlDev \o IconRelative, IconAbsolute}

\* generateFilePath on these urls, evaluated once
filePath == [url \in IconUrls |-> generateFilePath(url)]

\* records written to the domain file by earlier runs of the application
StorePool ==
  <<[url |-> UrlDev, alias |-> NameDev,
     icon |-> filePath[IconAbsolute], ignoreCerts |-> FALSE],
    [url |-> UrlA, alias |-> escape(NameRnD),
     icon |-> defaultIconUrl, ignoreCerts |-> FALSE],
    [url |-> UrlC, alias |-> UrlC,
     icon |-> defaultIconUrl, ignoreCerts |-> TRUE]>>

\* the domain file of the old schema, { domain: url }, as the constructor
\* migrates it: addDomain({alias: 'Zulip', url}) has no icon to fetch and
\* pushes the record at once, with the default icon and no ignoreCerts
MigratedStore ==
  <<[alias |-> ZulipAlias, url |-> UrlA, icon |-> defaultIconUrl]>>

\* a domain file whose only server was added after the user had accepted
\* its certificate
TrustedStore == <<StorePool[3]>>

InitStores ==
  {SubSeq(StorePool, 1, n) : n \in 0..(IF MaxStore < Len(StorePool)
                                         THEN MaxStore ELSE Len(StorePool))}
    \cup {MigratedStore}

(***************************************************************************)
(* State.                                                                  *)
(*   domains  the array /domains of the domain file (config/domain.json)   *)
(*   flows    the asynchronous calls in flight: one per submission of the  *)
(*            form, per queued preset organization and per refresh         *)
(*   started  the start-up steps of ServerManagerView.init() already run   *)
(*   db       this.db of the DomainUtil of each page: the main window and   *)
(*            the settings page are separate pages, each with its own       *)
(*            JsonDB, which reads the file on its first access and works   *)
(*            on the data it read from then on                             *)
(*   presetOrgs       this.presetOrgs of ServerManagerView                 *)
(*   preAddedDomains  the servers initPresetOrgs found registered          *)
(*   shown    what the main window has shown or sent so far: its dialog     *)
(*            boxes, its IPC messages and its uncaught exceptions           *)
(*   lastActiveTab    the configuration item of that name                   *)
(*   corrupt  whether the domain file holds text that is not JSON           *)
(*   call     the last direct call of an operation of DomainUtil or of      *)
(*            DNDUtil, with its argument and its result                     *)
(*   tabs, activeTabIndex, functionalTabs                                   *)
(*            the fields of that name of ServerManagerView; the tab at the  *)
(*            JavaScript index i is tabs[i + 1], undefined once deleted     *)
(*   refreshOrder     the indices the last initTabs has called              *)
(*            updateSavedServer for, in the order of the calls              *)
(*   config   the items of the settings file that DNDUtil reads and writes  *)
(*   platform process.platform                                              *)
(***************************************************************************)
VARIABLES domains, flows, started, db, presetOrgs, preAddedDomains, shown,
          lastActiveTab, corrupt, call, tabs, activeTabIndex, functionalTabs,
          refreshOrder, config, platform

vars ==
  <<domains, flows, started, db, presetOrgs, preAddedDomains, shown,
    lastActiveTab, corrupt, call, tabs, activeTabIndex, functionalTabs,
    refreshOrder, config, platform>>

\* the settings of do-not-disturb
dndVars == <<config, platform>>

\* the tabs of the main window
viewVars == <<tabs, activeTabIndex, functionalTabs, refreshOrder>>

\* the state of the preset bootstrap
bootVars == <<presetOrgs, preAddedDomains>>

\* the state the flows of the renderer leave alone
restVars == <<lastActiveTab, corrupt, call, dndVars>>

\* the same with the tabs
idleVars == <<restVars, viewVars>>

FormIds == 1..MaxForm

PresetIds == (MaxForm + 1)..(MaxForm + Len(PresetPool))

\* the refresh of index i is flow RefreshBase + i + 1
RefreshBase == MaxForm + Len(PresetPool)

RefreshIds == (RefreshBase + 1)..(RefreshBase + MaxStore)

AddIds == FormIds \cup PresetIds

\* the flow of the update-realm-icon handler
IconUpdateId == RefreshBase + MaxStore + 1

FlowIds == FormIds \cup PresetIds \cup RefreshIds \cup {IconUpdateId}

NoConf ==
  [icon |-> <<>>, url |-> <<>>, alias |-> <<>>, ignoreCerts |-> FALSE]

NoReply == [error |-> Null, response |-> Undefined]

\* pc: where the call is suspended
\*   idle      not started
\*   settings  awaiting the answer of /api/v1/server_settings
\*   retry     awaiting the answer of the retry made by checkCertError
\*   icon      awaiting the download of the icon
\*   resolved  the record was appended (add) or written at index (refresh)
\*   rejected  checkDomain rejected with value
\*   hung      the promise of getServerSettings can never settle
\* The other fields after value are history: reply is the first answer of
\* the settings endpoint, verified whether getServerSettings resolved,
\* prompted and answer whether the certificate dialog was shown and the
\* button pressed, requests the number of settings requests issued, added
\* the inputs whose add flow had completed when this one started, old the
\* record at index when the refresh started, stale whether a record at or
\* below index was removed since, unhandled whether the flow ended in a
\* promise rejection that no handler takes, iconUrl the url saveServerIcon
\* was called with (Null before the call), iconRequests the number of icon
\* requests issued and notFound whether the icon request was answered 404.
IdleFlow ==
  [pc |-> "idle", kind |-> "none", input |-> <<>>, domain |-> <<>>,
   ignoreCerts |-> FALSE, silent |-> FALSE, index |-> -1,
   serverConf |-> NoConf, error |-> Undefined, value |-> Undefined,
   reply |-> NoReply, verified |-> FALSE, prompted |-> FALSE, answer |-> -1,
   requests |-> 0, added |-> {}, old |-> Null, stale |-> FALSE,
   unhandled |-> FALSE, iconUrl |-> Null, iconRequests |-> 0,
   notFound |-> FALSE]

(***************************************************************************)
(* The store (node-json-db on config/domain.json).  A handle h is what a   *)
(* page sees: h.file the array /domains of the file, h.cache its JsonDB.   *)
(***************************************************************************)
\* the pages: ServerManagerView runs in the main window ("main"), the
\* NewServerForm in the view created for preference.html ("pref")
Contexts == {"main", "pref"}

\* the page a flow runs in
contextOf(fl) == IF fl.kind = "form" THEN "pref" ELSE "main"

\* DomainUtil.reloadDB: this.db = new JsonDB(...), which has read nothing
Unloaded == [loaded |-> FALSE, data |-> <<>>]

\* a JsonDB after its first access, or after a save
Loaded(data) == [loaded |-> TRUE, data |-> data]

\* the array an access through this.db works on, without reloadDB
dbData(h) == IF h.cache.loaded THEN h.cache.data ELSE h.file

\* the handle after this.db has saved data, followed by reloadDB
savedReloaded(data) == [file |-> data, cache |-> Unloaded]

\* db.push('/domains[]', server, true)
pushDomain(ds, server) == Append(ds, server)

\* updateDomain with the path of addDomain, '/domains[]': the record is
\* appended instead of replacing the one at index
updateDomainAppend(ds, index, server) == Append(ds, server)

\* DomainUtil.updateDomain: db.push('/domains[index]', server, true).  An
\* index past the end leaves holes, which JSON stores as null.
updateDomain(ds, index, server) ==
  LET n == IF index + 1 > Len(ds) THEN index + 1 ELSE Len(ds)
  IN [i \in 1..n |-> IF i = index + 1 THEN server
                     ELSE IF i <= Len(ds) THEN ds[i] ELSE Null]

\* DomainUtil.removeDomain: db.delete('/domains[index]') compacts the array
removeDomain(ds, index) ==
  [i \in 1..(Len(ds) - 1) |-> IF i <= index THEN ds[i] ELSE ds[i + 1]]

\* DomainUtil.duplicateDomain: "true", "false", or "throw" when the loop
\* reads .url of a null element before it finds a match
duplicateDomain(ds, domain) ==
  LET formatted == formatUrl(domain)
      hits == {i \in 1..Len(ds) : ds[i] # Null /\ ds[i].url = formatted}
      holes == {i \in 1..Len(ds) : ds[i] = Null}
  IN IF \E i \in hits : \A j \in holes : i < j THEN "true"
     ELSE IF holes # {} THEN "throw"
     ELSE "false"

(***************************************************************************)
(* The verifier.  A result is [k, v]: k is "resolve" (v the record),       *)
(* "reject" (v the reason), "retry" (a new request was issued, v the       *)
(* serverConf with ignoreCerts set) or "throw" (an exception escaped the   *)
(* callback of request(), so the promise stays pending).                   *)
(***************************************************************************)
getServerSettings(domain, ignoreCerts, reply) ==
  LET error == reply.error
      response == reply.response
  IN IF error = Null /\ response.statusCode = 200
       THEN IF ~response.body.json
              THEN [k |-> "throw", v |-> Undefined]
              ELSE LET data == response.body.data
                   IN IF "realm_icon" \in DOMAIN data /\ data.realm_icon # <<>>
                        THEN [k |-> "resolve",
                              v |-> [icon |-> IF StartsWith(data.realm_icon, <<"/">>)
                                                THEN data.realm_uri \o data.realm_icon
                                                ELSE data.realm_icon,
                                     url |-> data.realm_uri,
                                     alias |-> escape(data.realm_name),
                                     ignoreCerts |-> ignoreCerts]]
                        ELSE [k |-> "reject", v |-> Str(noOrgsError(domain))]
       ELSE [k |-> "reject", v |-> response]

\* checkCertError without the throw of its last branch: a declined dialog
\* falls through to the placeholder like a failed retry does
checkCertErrorNoThrow(domain, serverConf, error, silent, answer) ==
  IF silent \/ answer # 0
    THEN [k |-> "resolve", v |-> serverConf, dialog |-> ~silent]
    ELSE [k |-> "retry", v |-> [serverConf EXCEPT !.ignoreCerts = TRUE],
          dialog |-> TRUE]

\* checkCertError that retries without certificate validation whatever
\* button is pressed in the dialog
checkCertErrorAnyAnswer(domain, serverConf, error, silent, answer) ==
  IF silent
    THEN [k |-> "resolve", v |-> serverConf, dialog |-> FALSE]
    ELSE [k |-> "retry", v |-> [serverConf EXCEPT !.ignoreCerts = TRUE],
          dialog |-> TRUE]

\* checkCertError without the test of silent: the dialog is shown in every
\* mode
checkCertErrorLoud(domain, serverConf, error, silent, answer) ==
  IF answer = 0
    THEN [k |-> "retry", v |-> [serverConf EXCEPT !.ignoreCerts = TRUE],
          dialog |-> TRUE]
    ELSE [k |-> "reject", v |-> ErrorObj(UntrustedMessage), dialog |-> TRUE]

\* DomainUtil.checkCertError up to the retry; answer is the button pressed
\* in the dialog, which blocks the renderer until it is closed, and dialog
\* tells whether showMessageBox was called
checkCertError(domain, serverConf, error, silent, answer) ==
  IF silent
    THEN [k |-> "resolve", v |-> serverConf, dialog |-> FALSE]
    ELSE IF answer = 0
           THEN [k |-> "retry", v |-> [serverConf EXCEPT !.ignoreCerts = TRUE],
                 dialog |-> TRUE]
           ELSE [k |-> "reject", v |-> ErrorObj(UntrustedMessage),
                 dialog |-> TRUE]

\* DomainUtil.checkCertError from the retry on; r is the result of
\* getServerSettings(domain, true)
checkCertErrorRetry(domain, serverConf, error, r) ==
  IF r.k = "reject"
    THEN IF error = Str(noOrgsError(domain))
           THEN [k |-> "reject", v |-> ErrorObj(toString(error))]
           ELSE [k |-> "resolve", v |-> serverConf]
    ELSE r

\* certRelated with the whitelist test written indexOf(...) >= -1, which
\* every domain passes
certRelatedAlways(domain, err) ==
  IndexOf(domain, whitelistDomains) >= -1
  \/ Includes(toString(OrEmpty(err)), CertificateWord)

\* whether the catch block of checkDomain hands the failure to checkCertError
certRelated(domain, err) ==
  LET error == OrEmpty(err)
      certsError == Includes(toString(error), CertificateWord)
  IN IndexOf(domain, whitelistDomains) >= 0 \/ certsError

\* the catch block of checkDomain with the bypass of the whitelist applied
\* to every other failure too: the placeholder is returned instead of the
\* invalid-server error
checkDomainCatchBypass(domain, serverConf, err, silent, answer) ==
  IF certRelated(domain, err)
    THEN checkCertError(domain, serverConf, OrEmpty(err), silent, answer)
    ELSE [k |-> "resolve", v |-> serverConf]

\* the catch block of DomainUtil.checkDomain; err is the rejection of
\* getServerSettings
checkDomainCatch(domain, serverConf, err, silent, answer) ==
  IF certRelated(domain, err)
    THEN checkCertError(domain, serverConf, OrEmpty(err), silent, answer)
    ELSE [k |-> "reject", v |-> Str(invalidZulipServerError(domain))]

\* DomainUtil.checkDomain up to its first suspension: the duplicate check,
\* formatUrl, serverConf and the request
checkDomain(fl, ds, domain, ignoreCerts, silent) ==
  LET dup == IF silent THEN "false" ELSE duplicateDomain(ds, domain)
      formatted == formatUrl(domain)
  IN CASE dup = "true" ->
            [fl EXCEPT !.input = domain, !.pc = "rejected",
                       !.value = ErrorObj(DuplicateMessage)]
       [] dup = "throw" ->
            [fl EXCEPT !.input = domain, !.pc = "rejected",
                       !.value = TypeErrorObj]
       [] OTHER ->
            [fl EXCEPT !.input = domain, !.domain = formatted,
                       !.ignoreCerts = ignoreCerts, !.silent = silent,
                       !.serverConf = [icon |-> defaultIconUrl,
                                       url |-> formatted,
                                       alias |-> formatted,
                                       ignoreCerts |-> ignoreCerts],
                       !.pc = "settings", !.requests = 1]

(***************************************************************************)
(* The callers.  Each operator gives the flow and the handle of its page   *)
(* after the synchronous code that follows a settled promise has run; ds   *)
(* is the handle before.                                                   *)
(***************************************************************************)
Step(fl, ds) == [flow |-> fl, domains |-> ds]

\* the handle of the page of the flow fl
Handle(fl, file, caches) == [file |-> file, cache |-> caches[contextOf(fl)]]

\* the callback of saveServerIcon().then in addDomain and updateSavedServer
\* a refresh that writes the first record whatever its index
iconSavedAtZero(fl, ds, server, localIconUrl) ==
  LET saved == [server EXCEPT !.icon = localIconUrl]
      done == [fl EXCEPT !.pc = "resolved", !.serverConf = saved]
  IN IF fl.kind = "refresh"
       THEN Step(done, savedReloaded(updateDomain(ds.file, 0, saved)))
       ELSE Step(done, savedReloaded(pushDomain(dbData(ds), saved)))

iconSaved(fl, ds, server, localIconUrl) ==
  LET saved == [server EXCEPT !.icon = localIconUrl]
      done == [fl EXCEPT !.pc = "resolved", !.serverConf = saved]
  IN IF fl.kind = "refresh"
       THEN Step(done, savedReloaded(updateDomain(ds.file, fl.index, saved)))
       ELSE Step(done, savedReloaded(pushDomain(dbData(ds), saved)))

\* server.icon: undefined when server has no such property, as a string
\* passed in the place of the record
iconOf(server) ==
  IF "icon" \in DOMAIN server THEN Str(server.icon) ELSE Undefined

\* saveServerIcon without the test of the default icon: every url is
\* requested
saveServerIconAlways(fl, ds, server) ==
  LET url == iconOf(server)
      called == [fl EXCEPT !.iconUrl = url]
  IN IF url = Undefined
       THEN Step([called EXCEPT !.pc = "rejected",
                                !.value = PathTypeErrorObj], ds)
       ELSE Step([called EXCEPT !.pc = "icon", !.serverConf = server,
                                !.iconRequests = @ + 1], ds)

\* DomainUtil.saveServerIcon up to its suspension: generateFilePath throws
\* in the executor for a url that is not a string, which rejects the
\* promise; the default icon is resolved at once; any other url is
\* requested
saveServerIcon(fl, ds, server) ==
  LET url == iconOf(server)
      called == [fl EXCEPT !.iconUrl = url]
  IN IF url = Undefined
       THEN Step([called EXCEPT !.pc = "rejected",
                                !.value = PathTypeErrorObj], ds)
     ELSE IF url.s = defaultIconUrl
       THEN iconSaved(called, ds, server, defaultIconUrl)
     ELSE Step([called EXCEPT !.pc = "icon", !.serverConf = server,
                              !.iconRequests = @ + 1], ds)

\* saveServerIcon resolving with the url it downloaded instead of the path
\* of the file it wrote
localIconRemote(url, iconReply) ==
  IF iconReply \in {"finish", "finish404"}
    THEN url
    ELSE defaultIconUrl

\* what saveServerIcon resolves with when the download has ended: filePath
\* was computed by generateFilePath(url) when the download started
localIcon(url, iconReply) ==
  IF iconReply \in {"finish", "finish404"}
    THEN filePath[url]
    ELSE defaultIconUrl

\* DomainUtil.addDomain
addDomain(fl, ds, server) ==
  IF server.icon # <<>>
    THEN saveServerIcon(fl, ds, server)
    ELSE Step([fl EXCEPT !.pc = "resolved",
                         !.serverConf = [server EXCEPT !.icon = defaultIconUrl]],
              savedReloaded(pushDomain(dbData(ds),
                                       [server EXCEPT !.icon = defaultIconUrl])))

\* the two callbacks of checkDomain().then in NewServerForm.submitFormHandler
\* a form that stores the record it had prepared although checkDomain
\* rejected
submitFormThenStore(fl, ds, r) ==
  IF r.k = "resolve"
    THEN addDomain(fl, ds, r.v)
    ELSE Step([fl EXCEPT !.pc = "rejected", !.value = r.v],
              savedReloaded(pushDomain(dbData(ds), fl.serverConf)))

submitFormThen(fl, ds, r) ==
  IF r.k = "resolve"
    THEN addDomain(fl, ds, r.v)
    ELSE Step([fl EXCEPT !.pc = "rejected", !.value = r.v], ds)

\* ServerManagerView.queueDomain after the await of checkDomain
queueDomainThen(fl, ds, r) ==
  IF r.k = "resolve"
    THEN addDomain(fl, ds, r.v)
    ELSE Step([fl EXCEPT !.pc = "rejected", !.value = r.v], ds)

\* the callback of checkDomain().then in DomainUtil.updateSavedServer; a
\* rejection has no handler
updateSavedServerThen(fl, ds, r) ==
  IF r.k = "resolve"
    THEN saveServerIcon(fl, ds, r.v)
    ELSE Step([fl EXCEPT !.pc = "rejected", !.value = r.v,
                         !.unhandled = TRUE], ds)

\* the code that runs when checkDomain has the result r
settled(fl, ds, r) ==
  CASE r.k = "throw" -> Step([fl EXCEPT !.pc = "hung"], ds)
    [] r.k = "retry" ->
         Step([fl EXCEPT !.pc = "retry", !.serverConf = r.v,
                         !.requests = @ + 1], ds)
    [] fl.kind = "form" -> submitFormThen(fl, ds, r)
    [] fl.kind = "preset" -> queueDomainThen(fl, ds, r)
    [] OTHER -> updateSavedServerThen(fl, ds, r)

(***************************************************************************)
(* Actions.                                                                *)
(***************************************************************************)
\* ipcRenderer.send('reload-full-app')
ReloadFullApp == [type |-> "send", channel |-> "reload-full-app"]

\* dialog.showMessageBox of initPresetOrgs: 'New server added. Reload app
\* now?', or 'New servers' when several promises were queued
ReloadQuestion(length) == [type |-> "messageBox", plural |-> (length > 1)]

\* dialog.showErrorBox with Messages.enterpriseOrgError(length, failedDomains)
EnterpriseOrgError(length, failedDomains) ==
  [type |-> "errorBox", message |-> "enterpriseOrgError", length |-> length,
   domains |-> failedDomains]

\* dialog.showErrorBox with Messages.orgRemovalError(url)
OrgRemovalError(url) ==
  [type |-> "errorBox", message |-> "orgRemovalError", url |-> url]

\* dialog.showErrorBox of reloadDB: 'Error saving new organization'
StoreErrorBox == [type |-> "errorBox", message |-> "reloadDB"]

\* this.openSettings('AddServer')
OpenSettings == [type |-> "openSettings", nav |-> "AddServer"]

\* the button pressed in the dialog 'Reload app now?': 0 is Yes, 1 is Later
Answered(response) == [type |-> "response", response |-> response]

\* an exception that leaves a callback of the main window
Uncaught(where) == [type |-> "uncaught", where |-> where]

\* alert(errorMessage) of the new-server form
Alert(errorMessage) == [type |-> "alert", message |-> errorMessage]

\* the alerts of the step from fls to fls2: the rejection handler of
\* submitFormHandler runs for every form flow that checkDomain has just
\* rejected
alerted(fls, fls2) ==
  {Alert(fls2[f].value) :
     f \in {g \in FormIds : fls[g].pc # "rejected" /\ fls2[g].pc = "rejected"}}

\* no direct call yet
NoCall == [op |-> "none", arg |-> Undefined, result |-> Undefined]

\* history: the inputs of the add flows that have appended their record
Completed(fls) ==
  {fls[f].input : f \in {g \in AddIds : fls[g].pc = "resolved"}}

\* a boolean and an object of the settings file
Bool(b) == [t |-> "boolean", b |-> b]

Obj(fields) == [t |-> "object", fields |-> fields]

Platforms == {"win32", "linux"}

\* toggle: dndSettingList
dndSettingList(p) ==
  IF p = "win32"
    THEN {"showNotification", "silent", "flashTaskbarOnMessage"}
    ELSE {"showNotification", "silent"}

\* ConfigUtil.getConfigItem(key, defaultValue): the stored value, or
\* defaultValue when the file has none for key
getConfigItem(cfg, key, defaultValue) ==
  IF cfg[key] = Undefined THEN defaultValue ELSE cfg[key]

\* ConfigUtil.setConfigItem(key, value)
setConfigItem(cfg, key, value) == [cfg EXCEPT ![key] = value]

\* the default of dndPreviousSettings, in initDefaultSettings and in toggle
defaultPreviousSettings(p) ==
  Obj([n \in dndSettingList(p) |-> Bool(n # "silent")])

\* initDefaultSettings: the items do-not-disturb uses, on a first run
settingOptions(p) ==
  [dnd |-> Bool(FALSE), showNotification |-> Bool(TRUE),
   silent |-> Bool(FALSE),
   flashTaskbarOnMessage |-> IF p = "win32" THEN Bool(TRUE) ELSE Undefined,
   dndPreviousSettings |-> defaultPreviousSettings(p)]

\* the settings files initDefaultSettings can leave on platform p: every
\* item has a value, changed by the settings page or by toggle since
Configs(p) ==
  {cfg \in [dnd : {Bool(b) : b \in BOOLEAN},
            showNotification : {Bool(b) : b \in BOOLEAN},
            silent : {Bool(b) : b \in BOOLEAN},
            flashTaskbarOnMessage :
              {Bool(b) : b \in BOOLEAN} \cup {Undefined},
            dndPreviousSettings :
              {Obj(o) : o \in [dndSettingList(p) ->
                                 {Bool(b) : b \in BOOLEAN}]}] :
     (cfg.flashTaskbarOnMessage = Undefined) = (p # "win32")}

\* toggle, disabling: the settings a previous call has stored, without
\* reading dndPreviousSettings
previousSettingsDefault(cfg, p) == defaultPreviousSettings(p).fields

\* toggle, disabling: newSettings
previousSettings(cfg, p) ==
  getConfigItem(cfg, "dndPreviousSettings", defaultPreviousSettings(p)).fields

\* the items of cfg become those of newSettings, for the names of
\* dndSettingList
settingsWritten(cfg, p, newSettings) ==
  [key \in DOMAIN cfg |->
     IF key \in dndSettingList(p)
       THEN IF key \in DOMAIN newSettings THEN newSettings[key]
            ELSE Undefined
       ELSE cfg[key]]

\* DNDUtil.toggle: what it returns and the settings file it leaves
toggle(cfg, p) ==
  LET dnd == ~getConfigItem(cfg, "dnd", Bool(FALSE)).b
      oldSettings ==
        [n \in dndSettingList(p) |->
           getConfigItem(cfg, n, Bool(n # "silent"))]
      newSettings ==
        IF dnd THEN [n \in dndSettingList(p) |-> Bool(n = "silent")]
        ELSE previousSettings(cfg, p)
      stored ==
        IF dnd THEN setConfigItem(cfg, "dndPreviousSettings", Obj(oldSettings))
        ELSE cfg
  IN [dnd |-> dnd, newSettings |-> newSettings,
      config |-> setConfigItem(settingsWritten(stored, p, newSettings),
                               "dnd", Bool(dnd))]

\* what do-not-disturb and the three settings are for the application
Snapshot(cfg, p) ==
  [dnd |-> getConfigItem(cfg, "dnd", Bool(FALSE)),
   settings |-> [n \in dndSettingList(p) |->
                   getConfigItem(cfg, n, Bool(n # "silent"))]]

\* ServerManagerView: tabs, activeTabIndex and functionalTabs after the
\* constructor
NoView == [tabs |-> <<>>, activeTabIndex |-> -1, functionalTabs |-> <<>>]

\* the props of the ServerTab initServer pushes
ServerTab(server, index) ==
  [role |-> "server", name |-> "", index |-> index, url |-> server.url]

\* the props of the FunctionalTab openFunctionalTab pushes
FunctionalTab(name, index) ==
  [role |-> "function", name |-> name, index |-> index, url |-> <<>>]

\* this.tabs[index]
TabAt(ts, index) ==
  IF index >= 0 /\ index < Len(ts) THEN ts[index + 1] ELSE Undefined

\* ServerManagerView.activateTab; reading the props of a deleted old tab
\* throws a TypeError before activeTabIndex is assigned
activateTab(v, index, hideOldTab) ==
  IF TabAt(v.tabs, index) = Undefined
    THEN v
    ELSE IF v.activeTabIndex # -1 /\ v.activeTabIndex = index
      THEN v
      ELSE IF /\ v.activeTabIndex # -1
              /\ hideOldTab
              /\ TabAt(v.tabs, v.activeTabIndex) = Undefined
        THEN v
        ELSE [v EXCEPT !.activeTabIndex = index]

\* ServerManagerView.openFunctionalTab
openFunctionalTab(v, name) ==
  IF name \in DOMAIN v.functionalTabs
    THEN activateTab(v, v.functionalTabs[name], TRUE)
    ELSE LET index == Len(v.tabs)
             pushed ==
               [v EXCEPT !.functionalTabs =
                           [n \in DOMAIN v.functionalTabs \cup {name} |->
                              IF n = name THEN index ELSE v.functionalTabs[n]],
                         !.tabs = Append(v.tabs, FunctionalTab(name, index))]
         IN activateTab(pushed, index, TRUE)

\* ServerManagerView.destroyTab, the onDestroy of a functional tab
destroyTab(v, name, index) ==
  LET deleted ==
        [v EXCEPT !.tabs = [i \in 1..Len(v.tabs) |->
                              IF i = index + 1 THEN Undefined ELSE v.tabs[i]],
                  !.functionalTabs =
                    [n \in DOMAIN v.functionalTabs \ {name} |->
                       v.functionalTabs[n]]]
  IN IF v.activeTabIndex = index
       THEN activateTab(deleted, 0, FALSE)
       ELSE deleted

\* ServerManagerView.destroyView
destroyView(v) == NoView

\* initTabs: the tab opened for the persisted lastActiveTab
openLastTab(lastTab, length) ==
  IF lastTab >= length THEN 0 ELSE lastTab

\* initTabs: initServer(servers[i], i) reads server.icon, which throws a
\* TypeError on a null element; the exception ends initTabs, and with it
\* the callback of init
initTabsThrows(servers) == \E i \in 1..Len(servers) : servers[i] = Null

\* what initTabs and the rest of the callback of init add to started:
\* registerIpcs reads this.tabs[this.activeTabIndex].props.index for the
\* handler of 'reload-viewer', which throws when initTabs has opened no
\* tab; the handlers of 'open-settings' and 'open-about' are registered
\* before it
tabsStarted(servers, orgs) ==
  IF initTabsThrows(servers)
    THEN {"tabsThrew"}
    ELSE {"tabs"} \cup (IF Len(servers) > 0 \/ Len(orgs) = 0
                          THEN {"ipcs"} ELSE {})

\* initTabs: the indices updateSavedServer is called for, in the order of
\* the calls
refreshOrderOf(servers, lastTab) ==
  IF Len(servers) = 0 \/ initTabsThrows(servers)
    THEN <<>>
    ELSE LET first == openLastTab(lastTab, Len(servers))
         IN <<first>> \o [i \in 1..(Len(servers) - 1) |->
                            IF i - 1 < first THEN i - 1 ELSE i]

\* initTabs: the tabs it pushes and the one it activates; the tabs pushed
\* before initServer throws stay
tabsOpened(v, servers, lastTab, orgs) ==
  IF initTabsThrows(servers)
    THEN [v EXCEPT !.tabs =
            v.tabs \o [i \in {j \in 1..Len(servers) :
                                \A k \in 1..j : servers[k] # Null} |->
                         ServerTab(servers[i], i - 1)]]
    ELSE IF Len(servers) > 0
      THEN activateTab(
             [v EXCEPT !.tabs =
                v.tabs \o [i \in 1..Len(servers) |->
                             ServerTab(servers[i], i - 1)]],
             openLastTab(lastTab, Len(servers)), TRUE)
      ELSE IF Len(orgs) = 0
        THEN openFunctionalTab(v, "Settings")
        ELSE v

\* the fields of ServerManagerView
View == [tabs |-> tabs, activeTabIndex |-> activeTabIndex,
         functionalTabs |-> functionalTabs]

\* the fields of ServerManagerView become those of v
Shows(v) ==
  /\ tabs' = v.tabs
  /\ activeTabIndex' = v.activeTabIndex
  /\ functionalTabs' = v.functionalTabs

\* the continuation of initPresetOrgs calls openSettings('AddServer')
SettingsOpened(events) ==
  /\ Shows(IF OpenSettings \in events
             THEN openFunctionalTab(View, "Settings")
             ELSE View)
  /\ UNCHANGED refreshOrder

\* The constructor of the DomainUtil of the main window has read the file
\* (reloadDB, then getData('/')); the one of the settings page is built
\* when the page is opened, and its first use starts with reloadDB.
\* lastActiveTab is the index reloadView saved in an earlier run, here the
\* one of the last tab; nothing has been shown, and no operation of
\* DomainUtil has been called directly.
InitFrom(stores) ==
  /\ domains \in stores
  /\ flows = [f \in FlowIds |-> IdleFlow]
  /\ started = {}
  /\ db = [c \in Contexts |->
             IF c = "main" THEN Loaded(domains) ELSE Unloaded]
  /\ presetOrgs = <<>>
  /\ preAddedDomains = <<>>
  /\ shown = {}
  /\ lastActiveTab = (IF Len(domains) = 0 THEN 0 ELSE Len(domains) - 1)
  /\ corrupt = FALSE
  /\ call = NoCall
  /\ tabs = NoView.tabs
  /\ activeTabIndex = NoView.activeTabIndex
  /\ functionalTabs = NoView.functionalTabs
  /\ refreshOrder = <<>>
  /\ platform = "linux"
  /\ config = settingOptions(platform)

Init == InitFrom(InitStores)

\* the same, where the file may also be the one with the trusted server
InitTrusted == InitFrom(InitStores \cup {TrustedStore})

\* the domain file an earlier run leaves when the refresh of the second of
\* two servers ends after both have been disconnected: updateDomain(1,
\* record) writes past the end of the emptied array
LeftStore ==
  <<Null, [StorePool[2] EXCEPT !.icon = filePath[UrlA \o IconRelative]]>>

\* the same, where the lastActiveTab saved in an earlier run is any index
\* a tab had then: servers may have been removed since
InitSaved ==
  /\ domains \in InitStores \cup {LeftStore}
  /\ flows = [f \in FlowIds |-> IdleFlow]
  /\ started = {}
  /\ db = [c \in Contexts |->
             IF c = "main" THEN Loaded(domains) ELSE Unloaded]
  /\ presetOrgs = <<>>
  /\ preAddedDomains = <<>>
  /\ shown = {}
  /\ lastActiveTab \in 0..MaxStore
  /\ corrupt = FALSE
  /\ call = NoCall
  /\ tabs = NoView.tabs
  /\ activeTabIndex = NoView.activeTabIndex
  /\ functionalTabs = NoView.functionalTabs
  /\ refreshOrder = <<>>
  /\ platform = "linux"
  /\ config = settingOptions(platform)

\* NewServerForm.submitFormHandler: the user submits input
submitFormHandler(f, input) ==
  /\ f \in FormIds
  /\ flows[f].pc = "idle"
  /\ \A g \in FormIds : g < f => flows[g].pc # "idle"
  /\ flows' = [flows EXCEPT ![f] =
                 checkDomain([IdleFlow EXCEPT !.kind = "form",
                                              !.added = Completed(flows)],
                             domains, input, FALSE, FALSE)]
  /\ db' = [db EXCEPT !["pref"] = Loaded(domains)]
  /\ shown' = shown \cup alerted(flows, flows')
  /\ UNCHANGED <<domains, started, bootVars, idleVars>>

\* the text of the save button of the form: 'Connecting...' from the
\* submission on, 'Connect' before it and after the rejection handler
saveServerButton(fl) ==
  IF fl.pc \in {"idle", "rejected"} THEN "Connect" ELSE "Connecting..."

\* the user presses the button again after a rejection; the input field
\* still holds the input
submitFormAgain(f) ==
  /\ f \in FormIds
  /\ flows[f].pc = "rejected"
  /\ flows' = [flows EXCEPT ![f] =
                 checkDomain([IdleFlow EXCEPT !.kind = "form",
                                              !.added = Completed(flows)],
                             domains, flows[f].input, FALSE, FALSE)]
  /\ flows'[f] # flows[f]
  /\ db' = [db EXCEPT !["pref"] = Loaded(domains)]
  /\ shown' = shown \cup {Alert(flows'[g].value) :
                            g \in {h \in {f} : flows'[h].pc = "rejected"}}
  /\ UNCHANGED <<domains, started, bootVars, idleVars>>

\* ServerManagerView.initPresetOrgs up to its await: every preset
\* organization that is not registered is queued
\* whether the loop of initPresetOrgs stops at an exception of
\* duplicateDomain before it reaches the organization at position n + 1
loopThrows(ds, orgs, n) ==
  \E i \in 1..n : duplicateDomain(ds, orgs[i]) = "throw"

queuePresets(fls, ds, orgs) ==
  [f \in FlowIds |->
     IF /\ f \in PresetIds
        /\ f - MaxForm <= Len(orgs)
        /\ ~loopThrows(ds, orgs, f - MaxForm)
        /\ duplicateDomain(ds, orgs[f - MaxForm]) = "false"
       THEN checkDomain([IdleFlow EXCEPT !.kind = "preset",
                                         !.added = Completed(fls)],
                        ds, orgs[f - MaxForm], FALSE, FALSE)
       ELSE fls[f]]

\* the promises of queueDomain in domainPromises
Queued(fls) == {f \in PresetIds : fls[f].kind = "preset"}

\* a promise of queueDomain is settled: true when the record was added,
\* false when checkDomain rejected
Settled == {"resolved", "rejected"}

\* Promise.race in the place of Promise.all: one settled promise suffices
allSettledAny(fls) ==
  \E f \in Queued(fls) : fls[f].pc \in Settled

\* await Promise.all(domainPromises) has its value
allSettled(fls) ==
  \A f \in Queued(fls) : fls[f].pc \in Settled

\* initPresetOrgs after the await of Promise.all: what it shows or sends
decided(fls, ds, orgs, preAdded) ==
  LET domainsAdded == {f \in Queued(fls) : fls[f].pc = "resolved"}
      length == Cardinality(Queued(fls))
      failedDomains ==
        SelectSeq(orgs, LAMBDA org : duplicateDomain(ds, org) = "false")
  IN IF domainsAdded # {}
       THEN IF Len(preAdded) > 0
              THEN {ReloadQuestion(length)}
              ELSE {ReloadFullApp}
     ELSE IF length > 0
       THEN IF loopThrows(ds, orgs, Len(orgs))
              THEN {Uncaught("initPresetOrgs")}
              ELSE {EnterpriseOrgError(length, failedDomains)}
                     \cup (IF Len(ds) = 0 THEN {OpenSettings} ELSE {})
     ELSE {}

\* what the step that takes the flows from fls to fls2 adds to shown: the
\* continuation of initPresetOrgs runs in the step in which the last of
\* its promises settles
joined(fls, fls2, ds2, begun, orgs, preAdded) ==
  IF /\ "presets" \in begun
     /\ "presetsThrew" \notin begun
     /\ \E f \in Queued(fls2) : fls[f].pc \notin Settled
     /\ allSettled(fls2)
    THEN decided(fls2, ds2, orgs, preAdded)
    ELSE {}

\* started after initPresetOrgs has run with the configuration orgs
bootstrapped(ds, orgs) ==
  {"presets"} \cup (IF loopThrows(ds, orgs, Len(orgs))
                     THEN {"presetsThrew"} ELSE {})

\* DomainUtil.updateSavedServer up to its suspension
updateSavedServer(ds, url, index) ==
  LET ignoreCerts == IF "ignoreCerts" \in DOMAIN ds[index + 1]
                       THEN ds[index + 1].ignoreCerts
                       ELSE FALSE
  IN checkDomain([IdleFlow EXCEPT !.kind = "refresh", !.index = index,
                                  !.old = ds[index + 1]],
                 ds, url, ignoreCerts, TRUE)

\* ServerManagerView.initTabs: one refresh per registered server
refreshTabs(fls, ds) ==
  [f \in FlowIds |->
     IF f \in RefreshIds /\ f - RefreshBase <= Len(ds) /\ ~initTabsThrows(ds)
       THEN updateSavedServer(ds, ds[f - RefreshBase].url, f - RefreshBase - 1)
       ELSE fls[f]]

\* initPresetOrgs with the presetOrganizations orgs.  When nothing is
\* queued Promise.all([]) gives an empty array and nothing is shown.
initPresetOrgsWith(orgs) ==
  /\ "presets" \notin started
  /\ started' = started \cup bootstrapped(domains, orgs)
  /\ flows' = queuePresets(flows, domains, orgs)
  /\ db' = [db EXCEPT !["main"] = Loaded(domains)]
  /\ presetOrgs' = orgs
  /\ preAddedDomains' = domains
  /\ UNCHANGED <<domains, shown, idleVars>>

initPresetOrgs == initPresetOrgsWith(presetOrganizations)

initTabs ==
  /\ "tabs" \notin started
  /\ "tabsThrew" \notin started
  /\ started' = started \cup tabsStarted(domains, presetOrgs)
  /\ flows' = refreshTabs(flows, domains)
  /\ db' = [db EXCEPT !["main"] = Loaded(domains)]
  /\ Shows(tabsOpened(View, domains, lastActiveTab, presetOrgs))
  /\ refreshOrder' = refreshOrderOf(domains, lastActiveTab)
  /\ UNCHANGED <<domains, bootVars, shown, restVars>>

\* ServerManagerView.init: initPresetOrgs and initTabs run in one task
init ==
  /\ started = {}
  /\ started' = tabsStarted(domains, presetOrganizations)
                  \cup bootstrapped(domains, presetOrganizations)
  /\ flows' = refreshTabs(queuePresets(flows, domains, presetOrganizations),
                          domains)
  /\ db' = [db EXCEPT !["main"] = Loaded(domains)]
  /\ presetOrgs' = presetOrganizations
  /\ preAddedDomains' = domains
  /\ Shows(tabsOpened(View, domains, lastActiveTab, presetOrganizations))
  /\ refreshOrder' = refreshOrderOf(domains, lastActiveTab)
  /\ UNCHANGED <<domains, shown, restVars>>

\* the callback of request() in getServerSettings called by checkDomain,
\* and everything that runs before the next suspension
SettingsResponse(f, reply, answer) ==
  LET fl == flows[f]
      r == getServerSettings(fl.domain, fl.ignoreCerts, reply)
      dialog == /\ r.k = "reject"
                /\ certRelated(fl.domain, r.v)
                /\ checkCertError(fl.domain, fl.serverConf, OrEmpty(r.v),
                                  fl.silent, answer).dialog
      seen == [fl EXCEPT !.reply = reply, !.verified = (r.k = "resolve"),
                         !.prompted = dialog,
                         !.answer = IF dialog THEN answer ELSE -1,
                         !.error = IF r.k = "reject" THEN OrEmpty(r.v)
                                   ELSE Undefined]
      result == IF r.k = "reject"
                  THEN checkDomainCatch(fl.domain, fl.serverConf, r.v,
                                        fl.silent, answer)
                  ELSE r
      next == settled(seen, Handle(fl, domains, db), result)
  IN /\ fl.pc = "settings"
     /\ flows' = [flows EXCEPT ![f] = next.flow]
     /\ domains' = next.domains.file
     /\ db' = [db EXCEPT ![contextOf(fl)] = next.domains.cache]
     /\ shown' = shown \cup alerted(flows, flows')
                     \cup joined(flows, flows', domains', started,
                                 presetOrgs, preAddedDomains)
     /\ SettingsOpened(joined(flows, flows', domains', started,
                               presetOrgs, preAddedDomains))
     /\ UNCHANGED <<started, bootVars, restVars>>

\* the callback of request() in getServerSettings called by checkCertError
RetryResponse(f, reply) ==
  LET fl == flows[f]
      r == getServerSettings(fl.domain, TRUE, reply)
      next == settled([fl EXCEPT !.verified = (r.k = "resolve")],
                      Handle(fl, domains, db),
                      checkCertErrorRetry(fl.domain, fl.serverConf, fl.error, r))
  IN /\ fl.pc = "retry"
     /\ flows' = [flows EXCEPT ![f] = next.flow]
     /\ domains' = next.domains.file
     /\ db' = [db EXCEPT ![contextOf(fl)] = next.domains.cache]
     /\ shown' = shown \cup alerted(flows, flows')
                     \cup joined(flows, flows', domains', started,
                                 presetOrgs, preAddedDomains)
     /\ SettingsOpened(joined(flows, flows', domains', started,
                               presetOrgs, preAddedDomains))
     /\ UNCHANGED <<started, bootVars, restVars>>

\* the end of the icon download started by saveServerIcon
IconResponse(f, iconReply) ==
  LET fl == flows[f]
      next == iconSaved([fl EXCEPT !.notFound = (iconReply = "finish404")],
                        Handle(fl, domains, db), fl.serverConf,
                        localIcon(fl.serverConf.icon, iconReply))
  IN /\ fl.pc = "icon"
     /\ flows' = [flows EXCEPT ![f] = next.flow]
     /\ domains' = next.domains.file
     /\ db' = [db EXCEPT ![contextOf(fl)] = next.domains.cache]
     /\ shown' = shown \cup alerted(flows, flows')
                     \cup joined(flows, flows', domains', started,
                                 presetOrgs, preAddedDomains)
     /\ SettingsOpened(joined(flows, flows', domains', started,
                               presetOrgs, preAddedDomains))
     /\ UNCHANGED <<started, bootVars, restVars>>

\* the number of tabs: initTabs creates one per server, with its refresh
tabCount(fls) == Cardinality({f \in RefreshIds : fls[f].kind = "refresh"})

\* the value of the call DomainUtil.removeDomain(index): the method ends
\* without a return statement
removeDomainValue == Undefined

\* the callback of the confirmation dialog after removeDomain(index) has
\* left ds2 in the file and returned value: the new lastActiveTab and what
\* is shown.  getDomain(index) throws when no record is left at index, and
\* .url throws on a null element.
disconnected(ds2, index, value, tab) ==
  IF value # Undefined
    THEN [lastActiveTab |-> 0, shown |-> {ReloadFullApp}]
    ELSE [lastActiveTab |-> tab,
          shown |-> IF index >= Len(ds2) \/ ds2[index + 1] = Null
                      THEN {Uncaught("disconnect")}
                      ELSE {OrgRemovalError(ds2[index + 1].url)}]

\* the user confirms 'Disconnect organization' for tab index:
\* removeDomain(index) deletes through this.db as it is, then calls
\* reloadDB; the else branch reads the file again with getDomain(index)
Disconnect(index) ==
  LET after == disconnected(domains', index, removeDomainValue, lastActiveTab)
  IN /\ "tabs" \in started
     /\ index < tabCount(flows)
     /\ index < Len(dbData([file |-> domains, cache |-> db["main"]]))
     /\ domains' = removeDomain(dbData([file |-> domains,
                                        cache |-> db["main"]]), index)
     /\ db' = [db EXCEPT !["main"] =
                 IF removeDomainValue # Undefined THEN Unloaded
                 ELSE Loaded(domains')]
     /\ flows' = [f \in FlowIds |->
                    IF flows[f].kind = "refresh" /\ index <= flows[f].index
                      THEN [flows[f] EXCEPT !.stale = TRUE]
                      ELSE flows[f]]
     /\ lastActiveTab' = after.lastActiveTab
     /\ shown' = shown \cup after.shown
     /\ UNCHANGED <<started, bootVars, corrupt, call, viewVars, dndVars>>

\* the records a forEach over getDomains() reaches before it throws: those
\* before the first null element
reached(ds) ==
  {i \in 1..Len(ds) : \A j \in 1..i : ds[j] # Null}

\* domain.loggedIn = loggedIn
withLoggedIn(domain, loggedIn) ==
  [x \in DOMAIN domain \cup {"loggedIn"} |->
     IF x = "loggedIn" THEN loggedIn ELSE domain[x]]

\* the set-logged-in handler; getDomain(index) throws past the end, and
\* the assignment throws on a null element.  getDomain and updateDomain
\* both start with reloadDB.
setLoggedIn(loggedIn, index) ==
  /\ "tabs" \in started
  /\ index < tabCount(flows)
  /\ index < Len(domains)
  /\ domains[index + 1] # Null
  /\ domains' = updateDomain(domains, index,
                             withLoggedIn(domains[index + 1], loggedIn))
  /\ db' = [db EXCEPT !["main"] = Loaded(domains')]
  /\ UNCHANGED <<flows, started, bootVars, shown, idleVars>>

\* the update-realm-name handler: the forEach stops at the first record
\* that throws, a null element or a matching record that has no tab
renamed(ds, count, serverURL, realmName) ==
  LET hit == {i \in reached(ds) : Includes(ds[i].url, serverURL)}
      done == {i \in hit : \A j \in hit : j <= i => j <= count}
  IN [i \in 1..Len(ds) |->
        IF i \in done THEN [ds[i] EXCEPT !.alias = escape(realmName)]
        ELSE ds[i]]

\* getDomains starts with reloadDB, and each push is followed by reloadDB
updateRealmName(serverURL, realmName) ==
  /\ "tabs" \in started
  /\ domains' = renamed(domains, tabCount(flows), serverURL, realmName)
  /\ domains' # domains
  /\ db' = [db EXCEPT !["main"] = Unloaded]
  /\ UNCHANGED <<flows, started, bootVars, shown, idleVars>>

\* the update-realm-icon handler: saveServerIcon is called with the string
\* iconURL in the place of a record, once per matching record; its promise
\* rejects, the callback of then never runs and nothing handles the
\* rejection
updateRealmIcon(serverURL, iconURL) ==
  LET next == saveServerIcon([IdleFlow EXCEPT !.kind = "realmIcon",
                                              !.input = iconURL],
                             [file |-> domains, cache |-> Loaded(domains)],
                             Str(iconURL))
  IN /\ "tabs" \in started
     /\ flows[IconUpdateId].pc = "idle"
     /\ \E i \in reached(domains) : Includes(domains[i].url, serverURL)
     /\ flows' = [flows EXCEPT ![IconUpdateId] =
                    [next.flow EXCEPT !.unhandled = (next.flow.pc = "rejected")]]
     /\ domains' = next.domains.file
     /\ db' = [db EXCEPT !["main"] = next.domains.cache]
     /\ UNCHANGED <<started, bootVars, shown, idleVars>>

(***************************************************************************)
(* The operations of DomainUtil called one at a time in the main window,   *)
(* on a domain file that may hold text that is not JSON.  A result is a    *)
(* value, or Thrown(what) when the call ends with an exception.            *)
(***************************************************************************)
Thrown(what) == [t |-> "thrown", what |-> what]

\* reloadDB that leaves a file it cannot parse where it is
reloadDBKeep(file, bad) == [file |-> file, shown |-> {}]

\* DomainUtil.reloadDB on the file with the array file, bad when its text
\* is not JSON: the file is removed and the error box is shown, and the new
\* JsonDB writes an empty database in its place
reloadDB(file, bad) ==
  IF bad
    THEN [file |-> <<>>, shown |-> {StoreErrorBox}]
    ELSE [file |-> file, shown |-> {}]

\* whether an access through this.db throws: a JsonDB that has read
\* nothing yet reads the file, and JSON.parse fails
loadThrows(cache, bad) == ~cache.loaded /\ bad

\* a record handed to addDomain without an icon, as the constructor does
\* for the server of the old schema
LegacyServer == [alias |-> ZulipAlias, url |-> UrlA]

\* DomainUtil.getDomains
getDomains ==
  LET r == reloadDB(domains, corrupt)
  IN /\ domains' = r.file
     /\ corrupt' = FALSE
     /\ db' = [db EXCEPT !["main"] = Loaded(r.file)]
     /\ shown' = shown \cup r.shown
     /\ call' = [op |-> "getDomains", arg |-> Undefined, result |-> r.file]
     /\ UNCHANGED <<flows, started, bootVars, lastActiveTab, viewVars, dndVars>>

\* DomainUtil.duplicateDomain(domain)
duplicateDomainCall(domain) ==
  LET r == reloadDB(domains, corrupt)
  IN /\ domains' = r.file
     /\ corrupt' = FALSE
     /\ db' = [db EXCEPT !["main"] = Loaded(r.file)]
     /\ shown' = shown \cup r.shown
     /\ call' = [op |-> "duplicateDomain", arg |-> Str(domain),
                 result |-> duplicateDomain(r.file, domain)]
     /\ UNCHANGED <<flows, started, bootVars, lastActiveTab, viewVars, dndVars>>

\* DomainUtil.getDomain(index): getData throws when there is no such index
getDomain(index) ==
  LET r == reloadDB(domains, corrupt)
  IN /\ domains' = r.file
     /\ corrupt' = FALSE
     /\ db' = [db EXCEPT !["main"] = Loaded(r.file)]
     /\ shown' = shown \cup r.shown
     /\ call' = [op |-> "getDomain", arg |-> index,
                 result |-> IF index < Len(r.file) THEN r.file[index + 1]
                            ELSE Thrown("DataError")]
     /\ UNCHANGED <<flows, started, bootVars, lastActiveTab, viewVars, dndVars>>

\* DomainUtil.updateDomain(index, server)
updateDomainCall(index, server) ==
  LET r == reloadDB(domains, corrupt)
  IN /\ domains' = updateDomain(r.file, index, server)
     /\ corrupt' = FALSE
     /\ db' = [db EXCEPT !["main"] = Loaded(domains')]
     /\ shown' = shown \cup r.shown
     /\ call' = [op |-> "updateDomain", arg |-> index, result |-> Undefined]
     /\ UNCHANGED <<flows, started, bootVars, lastActiveTab, viewVars, dndVars>>

\* DomainUtil.addDomain(server) for a server without icon: the push goes
\* through this.db, reloadDB comes after it.  The exception of the push
\* leaves the executor of the promise, which rejects.
addDomainCall(server) ==
  LET cache == db["main"]
      data == dbData([file |-> domains, cache |-> cache])
  IN /\ Len(data) <= MaxStore
     /\ IF loadThrows(cache, corrupt)
          THEN /\ call' = [op |-> "addDomain", arg |-> server,
                           result |-> Thrown("DatabaseError")]
               /\ UNCHANGED <<domains, corrupt, db, shown>>
          ELSE /\ domains' = pushDomain(data, [icon |-> defaultIconUrl,
                                               alias |-> server.alias,
                                               url |-> server.url])
               /\ corrupt' = FALSE
               /\ db' = [db EXCEPT !["main"] = Unloaded]
               /\ call' = [op |-> "addDomain", arg |-> server,
                           result |-> Undefined]
               /\ UNCHANGED shown
     /\ UNCHANGED <<flows, started, bootVars, lastActiveTab, viewVars, dndVars>>

\* DomainUtil.removeDomain(index): the delete goes through this.db,
\* reloadDB comes after it
removeDomainCall(index) ==
  LET cache == db["main"]
      data == dbData([file |-> domains, cache |-> cache])
  IN /\ IF loadThrows(cache, corrupt)
          THEN /\ call' = [op |-> "removeDomain", arg |-> index,
                           result |-> Thrown("DatabaseError")]
               /\ UNCHANGED <<domains, corrupt, db, shown>>
          ELSE /\ index < Len(data)
               /\ domains' = removeDomain(data, index)
               /\ corrupt' = FALSE
               /\ db' = [db EXCEPT !["main"] = Unloaded]
               /\ call' = [op |-> "removeDomain", arg |-> index,
                           result |-> removeDomainValue]
               /\ UNCHANGED shown
     /\ UNCHANGED <<flows, started, bootVars, lastActiveTab, viewVars, dndVars>>

\* the text of the domain file is damaged from outside the renderer
corruptFile ==
  /\ ~corrupt
  /\ corrupt' = TRUE
  /\ UNCHANGED <<domains, flows, started, db, bootVars, shown, lastActiveTab,
                 call, viewVars, dndVars>>

Read ==
  \/ getDomains
  \/ \E index \in 0..(MaxStore - 1) : getDomain(index)
  \/ \E domain \in FormInputs : duplicateDomainCall(domain)

Write ==
  \/ \E index \in 0..(MaxStore - 1) : updateDomainCall(index, StorePool[1])
  \/ addDomainCall(LegacyServer)
  \/ \E index \in 0..(MaxStore - 1) : removeDomainCall(index)

\* the callback of the dialog 'Reload app now?' of initPresetOrgs
reloadAnswer(response) ==
  /\ \E length \in 1..Len(PresetPool) : ReloadQuestion(length) \in shown
  /\ \A r \in {0, 1} : Answered(r) \notin shown
  /\ shown' = shown \cup {Answered(response)}
                     \cup (IF response = 0 THEN {ReloadFullApp} ELSE {})
  /\ UNCHANGED <<domains, flows, started, db, bootVars, idleVars>>

Bootstrap == \E orgs \in PresetConfigs : initPresetOrgsWith(orgs)

ReloadAnswer == \E response \in {0, 1} : reloadAnswer(response)

LoggedIn ==
  \E loggedIn \in BOOLEAN, index \in 0..(MaxStore - 1) :
    setLoggedIn(loggedIn, index)

RealmName == \E serverURL \in {UrlA, UrlDev} : updateRealmName(serverURL, NameRnD)

RealmIcon == \E serverURL \in {UrlA, UrlDev} : updateRealmIcon(serverURL, IconAbsolute)

Settings ==
  \E f \in FlowIds, reply \in SettingsReplies, answer \in DialogAnswers :
    SettingsResponse(f, reply, answer)

Retry == \E f \in FlowIds, reply \in SettingsReplies : RetryResponse(f, reply)

Icon == \E f \in FlowIds, iconReply \in IconReplies : IconResponse(f, iconReply)

Submit == \E f \in FormIds, input \in FormInputs : submitFormHandler(f, input)

Remove == \E index \in 0..(MaxStore - 1) : Disconnect(index)

\* The whole renderer.  A successful add ends by asking the main process
\* to reload the window (reload-full-app, for the presets after a dialog
\* when servers were already present); the request travels over IPC, and
\* the callbacks of the requests in flight keep running until the window
\* is torn down, so the flows are not stopped here.
Next ==
  \/ init \/ Submit \/ Settings \/ Retry \/ Icon \/ Remove
  \/ LoggedIn \/ RealmName \/ RealmIcon

Spec == Init /\ [][Next]_vars

\* the add flows alone: the form and the preset bootstrap
NextAdd == initPresetOrgs \/ Submit \/ Settings \/ Retry \/ Icon

SpecAdd == Init /\ [][NextAdd]_vars

\* the start-up of ServerManagerView, which adds the preset organizations
\* and refreshes the servers, and the handlers of the messages of the tabs
NextUpdates ==
  \/ init \/ Settings \/ Icon
  \/ LoggedIn \/ RealmName \/ RealmIcon

SpecUpdates == Init /\ [][NextUpdates]_vars

\* the same, where a download that was started ends: request() emits
\* either a response, whose stream finishes or fails, or an error
SpecUpdatesFair == SpecUpdates /\ WF_vars(Icon)

\* the tabs with their refreshes, the form and the removal of organizations
NextAddRemove == initTabs \/ Submit \/ Settings \/ Retry \/ Icon \/ Remove

SpecAddRemove == Init /\ [][NextAddRemove]_vars

\* the start-up with the preset organization zulipdev.org: the
\* verification of a new server and the refresh of the registered ones
NextStartup ==
  initPresetOrgsWith(DevPreset) \/ initTabs \/ Settings \/ Retry \/ Icon

SpecStartup == InitTrusted /\ [][NextStartup]_vars

\* the preset bootstrap alone, with one or two preset organizations
NextPresets == Bootstrap \/ Settings \/ Retry \/ Icon \/ ReloadAnswer

SpecPresets == Init /\ [][NextPresets]_vars

\* the form and the preset bootstrap with entries that may be empty; a
\* request for 'https://' + '/api/v1/server_settings' has no host and ends
\* in the error of request()
SubmitText ==
  \E f \in FormIds, input \in FormTexts : submitFormHandler(f, input)

BootstrapText == \E orgs \in PresetTexts : initPresetOrgsWith(orgs)

SettingsText ==
  \E f \in FlowIds, reply \in SettingsReplies \cup {InvalidUri},
     answer \in DialogAnswers :
    /\ (flows[f].domain = HttpsScheme) <=> (reply = InvalidUri)
    /\ SettingsResponse(f, reply, answer)

NextEntry == SubmitText \/ BootstrapText \/ SettingsText \/ Retry \/ Icon

SpecEntry == Init /\ [][NextEntry]_vars

\* the refreshes started by initTabs alone: no record is added or removed
NextTabs == initTabs \/ Settings \/ Icon

SpecTabs == Init /\ [][NextTabs]_vars

\* the new-server form alone, with its resubmissions
Resubmit == \E f \in FormIds : submitFormAgain(f)

NextForm == Submit \/ Resubmit \/ Settings \/ Retry \/ Icon

SpecForm == Init /\ [][NextForm]_vars

\* the pieces the arguments of formatUrl are put together from
UrlPieces ==
  {<<>>, HttpPrefix, HttpScheme, HttpsScheme, LocalhostMarker,
   <<"a">>, <<".">>, <<"9">>}

\* the arguments: up to three pieces in a row
UrlTexts == {p \o q \o r : p, q, r \in UrlPieces}

\* DomainUtil.formatUrl(domain)
formatUrlCall(domain) ==
  /\ call' = [op |-> "formatUrl", arg |-> domain,
              result |-> formatUrl(domain)]
  /\ UNCHANGED <<domains, flows, started, db, bootVars, shown,
                 lastActiveTab, corrupt, viewVars, dndVars>>

\* checkDomain and duplicateDomain format what the user or the preset
\* gave them
Format == \E domain \in UrlTexts : call = NoCall /\ formatUrlCall(domain)

\* updateSavedServer hands a stored url, which checkDomain had formatted,
\* to checkDomain, which formats it again
Reformat == call.op = "formatUrl" /\ formatUrlCall(call.result)

NextFormat == Format \/ Reformat

SpecFormat == Init /\ [][NextFormat]_vars

\* DomainUtil.generateFilePath(url), as saveServerIcon calls it
generateFilePathCall(url) ==
  /\ call' = [op |-> "generateFilePath", arg |-> url,
              result |-> generateFilePath(url)]
  /\ UNCHANGED <<domains, flows, started, db, bootVars, shown,
                 lastActiveTab, corrupt, viewVars, dndVars>>

\* the name is computed for a url, and again for the same url whenever
\* its icon is fetched again
NextHash ==
  \E url \in UrlTexts :
    /\ call = NoCall \/ (call.op = "generateFilePath" /\ call.arg = url)
    /\ generateFilePathCall(url)

SpecHash == Init /\ [][NextHash]_vars

\* the operations of DomainUtil on a file that can be damaged
NextStore == Read \/ Write \/ corruptFile

SpecStore == Init /\ [][NextStore]_vars

\* the refreshes started by initTabs, and the removal of organizations
NextRefresh == initTabs \/ Settings \/ Icon \/ Remove

SpecRefresh == Init /\ [][NextRefresh]_vars


(***************************************************************************)
(* Properties.  Writes(f) and Appends(f) are the steps in which the flow f *)
(* reaches the store; placeholder(fl) is the serverConf checkDomain builds *)
(* before it asks the server, with ignoreCerts as checkCertError sets it.  *)
(***************************************************************************)
Writes(f) ==
  /\ flows[f].kind = "refresh"
  /\ flows[f].pc # "resolved"
  /\ flows'[f].pc = "resolved"

Appends(f) ==
  /\ flows'[f].kind \in {"form", "preset"}
  /\ flows[f].pc # "resolved"
  /\ flows'[f].pc = "resolved"

placeholder(fl) ==
  [icon |-> defaultIconUrl, url |-> formatUrl(fl.input),
   alias |-> formatUrl(fl.input), ignoreCerts |-> TRUE]

failed(reply) ==
  reply # NoReply /\ getServerSettings(<<>>, FALSE, reply).k = "reject"

\* C1: no two records of the collection have the same url, whatever the
\* interleaving of the add flows of the form and of the preset bootstrap.
UrlsUnique ==
  \A i, j \in 1..Len(domains) :
    (i # j /\ domains[i] # Null /\ domains[j] # Null)
      => domains[i].url # domains[j].url

\* C2: a silent refresh of the record at index whose verification did not
\* obtain a valid server_settings response leaves that record as it was
\* when the refresh started, as long as nothing else wrote or moved it.
SilentRefreshKeepsRecord ==
  \A f \in RefreshIds :
    (/\ flows[f].pc \in {"resolved", "rejected"}
     /\ failed(flows[f].reply)
     /\ ~flows[f].stale)
      => (/\ flows[f].index < Len(domains)
          /\ domains[flows[f].index + 1] = flows[f].old)

SecondAddRejected ==
  \A f \in AddIds :
    (flows[f].pc # "idle" /\ flows[f].input \in flows[f].added)
      => (/\ flows[f].pc = "rejected"
          /\ flows[f].value = ErrorObj(DuplicateMessage)
          /\ flows[f].requests = 0)

CertFailurePrompts ==
  \A f \in AddIds :
    flows[f].reply = CertFailure
      => (/\ flows[f].prompted
          /\ ~(/\ flows[f].pc = "rejected"
               /\ flows[f].value = Str(invalidZulipServerError(flows[f].domain))))

\* C7: when the user declines the certificate prompt, checkDomain rejects
\* with 'Untrusted certificate.', the flow never reaches addDomain, and the
\* step leaves the collection as it was.
DeclineRejects ==
  [][\A f \in FlowIds :
       (flows'[f].prompted /\ flows'[f].answer = 1)
         => (/\ flows'[f].pc = "rejected"
             /\ flows'[f].value = ErrorObj(UntrustedMessage)
             /\ flows'[f] # flows[f] => domains' = domains)]_vars

\* C7 witness: an add flow whose prompt was declined has been rejected.
Declined ==
  \E f \in AddIds :
    /\ flows[f].prompted
    /\ flows[f].answer = 1
    /\ flows[f].pc = "rejected"

\* C8: a non-silent checkDomain of a url that is not registered and not
\* whitelisted, whose request fails for a reason that is not a certificate
\* (no response, or a status other than 200), rejects with the
\* invalid-server error and leaves the collection as it was.
FailureRejectsInvalid ==
  [][\A f \in AddIds :
       (/\ flows[f].pc = "settings"
        /\ flows'[f].reply \in {ConnFailure, NotFound}
        /\ IndexOf(flows[f].domain, whitelistDomains) < 0)
         => (/\ flows'[f].pc = "rejected"
             /\ flows'[f].value = Str(invalidZulipServerError(flows[f].domain))
             /\ domains' = domains)]_vars

\* C8 witness: an add flow of a url that is not whitelisted got no response
\* and was rejected.
InvalidServerRejected ==
  \E f \in AddIds :
    /\ flows[f].reply = ConnFailure
    /\ IndexOf(flows[f].domain, whitelistDomains) < 0
    /\ flows[f].pc = "rejected"
    /\ flows[f].requests = 1

\* C9: a 200 response whose body is not valid JSON makes checkDomain
\* settle with the invalid-server error.
BadJsonRejects ==
  \A f \in AddIds :
    flows[f].reply = BadJson
      => (/\ flows[f].pc = "rejected"
          /\ flows[f].value = Str(invalidZulipServerError(flows[f].domain)))

\* C10: a 200 response with valid JSON and no realm_icon makes a
\* non-silent add fail with the no-organizations error, not with the
\* invalid-server error, and no record is added.
NoIconRejectsNoOrgs ==
  \A f \in AddIds :
    flows[f].reply = Ok(EmptyBody)
      => (/\ flows[f].pc \in {"rejected", "retry"}
          /\ flows[f].pc = "rejected"
               => flows[f].value \in {Str(noOrgsError(flows[f].domain)),
                                      ErrorObj(noOrgsError(flows[f].domain))})

\* C11: checkDomain called with silent = true never rejects, whatever the
\* settings request answers.
SilentNeverRejects ==
  \A f \in FlowIds : flows[f].silent => flows[f].pc # "rejected"

\* C12: the certificate dialog is never shown by a checkDomain called with
\* silent = true, whitelisted domains and failed requests included.
SilentNeverPrompts ==
  \A f \in FlowIds : flows[f].silent => ~flows[f].prompted

\* C12 witness: the silent check of a refresh has reached checkCertError,
\* which handed the placeholder back, and the refresh has written it.
SilentCertErrorReached ==
  \E f \in RefreshIds :
    /\ flows[f].silent
    /\ failed(flows[f].reply)
    /\ flows[f].pc = "resolved"

\* C13: no refresh ends in a rejection that nothing handles.
RefreshSwallowsErrors ==
  \A f \in FlowIds : flows[f].kind = "refresh" => ~flows[f].unhandled

\* C14: the promise of saveServerIcon never rejects, whatever it is called
\* with; it resolves in the end, and the value it resolves with is the
\* default icon or the hash-named path of the url under server-icons.
IconFetchTotal ==
  /\ [](\A f \in FlowIds :
          flows[f].iconUrl # Null
            => (/\ flows[f].pc # "rejected"
                /\ flows[f].pc = "resolved"
                     => \/ flows[f].serverConf.icon = defaultIconUrl
                        \/ /\ flows[f].iconUrl.s \in IconUrls
                           /\ flows[f].serverConf.icon
                                = filePath[flows[f].iconUrl.s]))
  /\ \A f \in FlowIds :
       (flows[f].iconUrl # Null) ~> (flows[f].pc = "resolved")

\* C15: when the icon request of a verified server is answered 404, the
\* add completes and the record it appends has the default icon.
Icon404StoresDefault ==
  [][\A f \in AddIds :
       (Appends(f) /\ flows'[f].notFound)
         => domains'[Len(domains')].icon = defaultIconUrl]_vars

\* C16: saveServerIcon called with the default icon as url resolves with
\* the default icon and issues no request.
DefaultIconNoRequest ==
  \A f \in FlowIds :
    flows[f].iconUrl = Str(defaultIconUrl)
      => (/\ flows[f].pc = "resolved"
          /\ flows[f].iconRequests = 0
          /\ flows[f].serverConf.icon = defaultIconUrl)

\* C16 witness: a refresh has called saveServerIcon with the placeholder,
\* whose icon is the default icon, and has written the record.
DefaultIconSaved ==
  \E f \in RefreshIds :
    /\ flows[f].iconUrl = Str(defaultIconUrl)
    /\ flows[f].pc = "resolved"
    /\ ~flows[f].stale
    /\ domains[flows[f].index + 1].icon = defaultIconUrl

\* C17: the icon of every stored record is the default icon or a path
\* under the server-icons directory, never a remote url, whatever the
\* adds, the refreshes and the handlers of set-logged-in, update-realm-name
\* and update-realm-icon have done, the migrated store included.
IconsLocal ==
  \A i \in 1..Len(domains) :
    domains[i] # Null
      => (/\ \/ domains[i].icon = defaultIconUrl
             \/ StartsWith(domains[i].icon, userData \o ServerIconsDir \o <<"/">>)
          /\ ~StartsWith(domains[i].icon, HttpPrefix))

\* C17 witness: a preset organization was added with a downloaded icon, a
\* refresh has written a downloaded icon too, a record carries loggedIn,
\* another was renamed, and update-realm-icon has run.
IconsWritten ==
  /\ \E f \in PresetIds, g \in RefreshIds :
       /\ flows[f].pc = "resolved"
       /\ flows[g].pc = "resolved"
       /\ flows[f].serverConf.icon # defaultIconUrl
       /\ flows[g].serverConf.icon # defaultIconUrl
       /\ domains[Len(domains)] = flows[f].serverConf
  /\ flows[IconUpdateId].pc # "idle"
  /\ \E i \in 1..Len(domains) : "loggedIn" \in DOMAIN domains[i]
  /\ \E i \in 1..Len(domains) : domains[i].alias = escape(NameRnD)

\* C18: when two add flows for distinct urls have both completed, and no
\* other add has, both records are in the collection, which has grown by
\* exactly two records.
NoAppendLost ==
  \A f, g \in AddIds :
    (/\ f # g
     /\ {h \in AddIds : flows[h].pc = "resolved"} = {f, g}
     /\ flows[f].serverConf.url # flows[g].serverConf.url)
      => (/\ Len(domains) >= 2
          /\ SubSeq(domains, 1, Len(domains) - 2) \in InitStores
          /\ \E i, j \in 1..Len(domains) :
               /\ i # j
               /\ domains[i] = flows[f].serverConf
               /\ domains[j] = flows[g].serverConf)


\* the step in which removeDomain(index) runs in the main window
Removes(index) ==
  LET data == dbData([file |-> domains, cache |-> db["main"]])
  IN /\ index < Len(data)
     /\ domains' = removeDomain(data, index)
     /\ started' = started
     /\ \A f \in FlowIds : flows'[f].pc = flows[f].pc

\* C19: right after addDomain(record) has completed, duplicateDomain finds
\* record.url; right after removeDomain(index) has removed the only record
\* of the collection with its url, duplicateDomain does not find that url.
DuplicateTracksStore ==
  [][/\ \A f \in AddIds :
          Appends(f)
            => duplicateDomain(domains', flows'[f].serverConf.url) = "true"
     /\ \A index \in 0..(MaxStore - 1) :
          (/\ Removes(index)
           /\ index < Len(domains)
           /\ domains[index + 1] # Null
           /\ Cardinality({i \in 1..Len(domains) :
                             /\ domains[i] # Null
                             /\ domains[i].url = domains[index + 1].url}) = 1)
            => duplicateDomain(domains', domains[index + 1].url) = "false"]_vars

\* C20: removeDomain(k) on a collection of N records leaves N - 1 records:
\* those below k where they were, those above k one place earlier.
RemoveCompacts ==
  [][\A k \in 0..(MaxStore - 1) :
       (Removes(k) /\ k < Len(domains))
         => /\ Len(domains') = Len(domains) - 1
            /\ \A j \in 1..Len(domains') :
                 domains'[j] = IF j <= k THEN domains[j] ELSE domains[j + 1]]_vars


\* the operations that call reloadDB before they touch the store
ReloadFirst == {"getDomains", "getDomain", "updateDomain", "duplicateDomain"}

\* C21: when an operation calls reloadDB on a domain file that is not JSON,
\* the file is removed and replaced by an empty store, the error box is
\* shown, and the operation goes on as it does on the empty collection:
\* getDomains returns the empty array, duplicateDomain returns false,
\* getDomain finds no record at its index, updateDomain writes its record
\* into the empty collection.
CorruptionRecovered ==
  [][(corrupt /\ call'.op \in ReloadFirst)
       => /\ ~corrupt'
          /\ StoreErrorBox \in shown'
          /\ call'.op = "getDomains"
               => call'.result = <<>> /\ domains' = <<>>
          /\ call'.op = "duplicateDomain"
               => call'.result = "false" /\ domains' = <<>>
          /\ call'.op = "getDomain"
               => call'.result = Thrown("DataError") /\ domains' = <<>>
          /\ call'.op = "updateDomain"
               => domains' = updateDomain(<<>>, call'.arg, StorePool[1])]_vars

\* C21 witness: getDomains has found the file damaged, and returned the
\* empty array after the error box
CorruptionSeen ==
  /\ call.op = "getDomains"
  /\ call.result = <<>>
  /\ StoreErrorBox \in shown
  /\ domains = <<>>
  /\ ~corrupt


\* C22: initPresetOrgs issues the request of every preset organization that
\* is not registered in the step in which it runs, and the reload message,
\* the reload question and the error box appear only in a state in which
\* every queued queueDomain has returned true or false.
BootstrapJoins ==
  [][/\ ("presets" \notin started /\ "presets" \in started')
          => \A i \in 1..Len(presetOrgs') :
               duplicateDomain(domains, presetOrgs'[i]) = "false"
                 => /\ flows'[MaxForm + i].pc = "settings"
                    /\ flows'[MaxForm + i].requests = 1
     /\ (\E e \in shown' \ shown :
           e.type \in {"send", "messageBox", "errorBox", "openSettings"})
          => \A f \in PresetIds :
               flows'[f].kind = "preset"
                 => flows'[f].pc \in {"resolved", "rejected"}]_vars

\* C22 witness: two preset organizations were queued, both calls have
\* settled, one added and one not, and the reload message was sent
BootstrapJoined ==
  /\ \A f \in PresetIds : flows[f].kind = "preset"
  /\ \E f, g \in PresetIds :
       flows[f].pc = "resolved" /\ flows[g].pc = "rejected"
  /\ ReloadFullApp \in shown


\* C23: once the queued preset organizations have all settled and at least
\* one of them was not added, the error box of initPresetOrgs is shown and
\* names exactly the organizations that were not added, and the records of
\* those that were added are in the collection.
FailedPresetsReported ==
  LET notAdded == {f \in Queued(flows) : flows[f].pc = "rejected"}
      added == {f \in Queued(flows) : flows[f].pc = "resolved"}
  IN (/\ \A f \in Queued(flows) : flows[f].pc \in {"resolved", "rejected"}
      /\ notAdded # {})
       => /\ \E e \in shown :
               /\ e.type = "errorBox"
               /\ e.message = "enterpriseOrgError"
               /\ {e.domains[k] : k \in 1..Len(e.domains)}
                    = {flows[f].input : f \in notAdded}
          /\ \A f \in added :
               \E k \in 1..Len(domains) : domains[k] = flows[f].serverConf


\* C24: the step in which a confirmed 'Disconnect organization' removes the
\* record sets lastActiveTab to 0 and sends reload-full-app, and shows no
\* organization-removal error.
DisconnectResets ==
  [][\A index \in 0..(MaxStore - 1) :
       Removes(index)
         => /\ lastActiveTab' = 0
            /\ ReloadFullApp \in shown'
            /\ \A e \in shown' \ shown :
                 ~(e.type = "errorBox" /\ e.message = "orgRemovalError")]_vars


\* the user has accepted the certificate dialog of the flow, or the flow is
\* the refresh of a record stored with ignoreCerts = true
Consented(fl) ==
  \/ fl.prompted /\ fl.answer = 0
  \/ /\ fl.kind = "refresh"
     /\ fl.old # Null
     /\ "ignoreCerts" \in DOMAIN fl.old
     /\ fl.old.ignoreCerts

\* C25: a flow has a settings request without certificate validation in
\* flight, has issued an icon request without it, or has written a record
\* with ignoreCerts = true, only if the user accepted the certificate
\* dialog of that flow, or the flow refreshes a record that was stored with
\* ignoreCerts = true.
BypassOnlyWithConsent ==
  \A f \in FlowIds :
    (\/ flows[f].pc = "retry"
     \/ flows[f].pc = "settings" /\ flows[f].ignoreCerts
     \/ flows[f].iconRequests > 0 /\ flows[f].serverConf.ignoreCerts
     \/ flows[f].pc = "resolved" /\ flows[f].serverConf.ignoreCerts)
      => Consented(flows[f])

\* C25 witness: an add flow has appended a record with ignoreCerts = true
\* after the user accepted the dialog, and a refresh has written the record
\* of a server stored with ignoreCerts = true after a request without
\* certificate validation
BypassConsented ==
  /\ \E f \in AddIds :
       /\ flows[f].pc = "resolved"
       /\ flows[f].serverConf.ignoreCerts
       /\ flows[f].prompted /\ flows[f].answer = 0
       /\ \E k \in 1..Len(domains) : domains[k] = flows[f].serverConf
  /\ \E g \in RefreshIds :
       /\ flows[g].pc = "resolved"
       /\ flows[g].ignoreCerts
       /\ flows[g].serverConf.ignoreCerts
       /\ flows[g].iconRequests > 0

\* C26: a delete issued by the disconnect handler uses an index that still
\* names the record its tab was created for: no record at or below that
\* index was removed between the step that fixed the index and the delete.
DisconnectIndexFresh ==
  [][\A index \in 0..(MaxStore - 1) :
       (/\ Removes(index)
        /\ flows[RefreshBase + index + 1].kind = "refresh"
        /\ flows[RefreshBase + index + 1].index = index)
         => ~flows[RefreshBase + index + 1].stale]_vars

\* C27: neither the new-server form nor the preset bootstrap calls
\* checkDomain, and through it formatUrl, with the empty string.
NoEmptyDomainChecked ==
  \A f \in AddIds :
    flows[f].kind \in {"form", "preset"} => flows[f].input # EmptyInput

\* C28: formatUrl applied to a result of formatUrl returns it unchanged.
FormatIdempotent ==
  [][(/\ call.op = "formatUrl"
      /\ call'.op = "formatUrl"
      /\ call'.arg = call.result)
       => call'.result = call.result]_vars

\* C28 witness: 'a.a' was formatted to 'https://a.a', and that was
\* formatted again
FormatRepeated ==
  /\ call.op = "formatUrl"
  /\ call.arg = HttpsScheme \o <<"a", ".", "a">>
  /\ call.result = call.arg

\* the decimal digits
Digits == {"0", "1", "2", "3", "4", "5", "6", "7", "8", "9"}

\* C29: formatUrl returns an input that begins with 'http://' or
\* 'https://' unchanged, prefixes 'http://' to any other input that holds
\* 'localhost:' followed by a port, and 'https://' to the rest; the result
\* begins with 'http://' or 'https://'.
FormatUrlAsSpecified ==
  call.op = "formatUrl"
    => LET x == call.arg
           hasScheme == StartsWith(x, HttpScheme) \/ StartsWith(x, HttpsScheme)
           hasPort ==
             \E i \in 1..Len(x) :
               /\ i + Len(LocalhostMarker) <= Len(x)
               /\ SubSeq(x, i, i + Len(LocalhostMarker) - 1) = LocalhostMarker
               /\ x[i + Len(LocalhostMarker)] \in Digits
           expected == IF hasScheme THEN x
                       ELSE IF hasPort THEN HttpScheme \o x
                       ELSE HttpsScheme \o x
       IN /\ call.result = expected
          /\ \/ StartsWith(call.result, HttpScheme)
             \/ StartsWith(call.result, HttpsScheme)

\* The reference value of the hash, on four bytes, the lowest first.
\* a XOR b for a byte a and a character code b
RefXor(a, b) ==
  LET bit(n, w) == (n \div w) % 2
      x(w) == ((bit(a, w) + bit(b, w)) % 2) * w
  IN x(1) + x(2) + x(4) + x(8) + x(16) + x(32) + x(64) + x(128)

\* h * 33 XOR code, the carry out of the fourth byte dropped
RefStep(h, code) ==
  LET m1 == h[1] * 33
      m2 == h[2] * 33 + (m1 \div 256)
      m3 == h[3] * 33 + (m2 \div 256)
      m4 == h[4] * 33 + (m3 \div 256)
  IN <<RefXor(m1 % 256, code), m2 % 256, m3 % 256, m4 % 256>>

\* the value after the characters from the last down to the one at
\* position n; 5381 is 21 * 256 + 5
RECURSIVE RefFrom(_, _)
RefFrom(url, n) ==
  IF n > Len(url) THEN <<5, 21, 0, 0>>
  ELSE LET h == RefFrom(url, n + 1)
       IN IF h \in Seq(Nat) THEN RefStep(h, CharCodeAt(url, n - 1)) ELSE h

RefHash(url) == RefFrom(url, 1)

\* the number written by the digits ds in base base, modulo m
RECURSIVE Residue(_, _, _)
Residue(ds, base, m) ==
  IF ds = <<>> THEN 0
  ELSE (Residue(SubSeq(ds, 1, Len(ds) - 1), base, m) * base + ds[Len(ds)]) % m

\* three primes whose product is above 10^10: two numbers below 10^10 with
\* the same residues are equal
Moduli == {9949, 9967, 9973}

\* the digits at the start of the file name in path
HashDigits(path) ==
  LET name == SubSeq(path, Len(userData \o ServerIconsDir) + 2, Len(path))
      k == CHOOSE n \in 0..Len(name) :
             /\ \A i \in 1..n : name[i] \in Digits
             /\ n = Len(name) \/ name[n + 1] \notin Digits
  IN [i \in 1..k |-> CharCodeAt(name, i - 1) - 48]

\* C30: the file name generateFilePath gives for a url starts with the
\* decimal digits of the reference hash of the url: 5381, then for the
\* characters from the last to the first h = (h * 33) XOR code on 32 bits,
\* read as a number from 0 to 2^32 - 1; the name is a function of the url.
HashIsReference ==
  call.op = "generateFilePath"
    => LET ds == HashDigits(call.result)
           h == RefHash(call.arg)
       IN /\ Len(ds) \in 1..10
          /\ Len(ds) > 1 => ds[1] # 0
          /\ \A m \in Moduli :
               Residue(ds, 10, m) = Residue(<<h[4], h[3], h[2], h[1]>>, 256, m)
          /\ call.result = generateFilePath(call.arg)

\* C30 witness: a url of ten characters or more whose hash has wrapped
\* around and reads above 2^31
HashWrapped ==
  /\ call.op = "generateFilePath"
  /\ Len(call.arg) >= 10
  /\ Len(HashDigits(call.result)) = 10
  /\ HashDigits(call.result)[1] >= 3

\* C31: when the form hands an input to checkDomain, duplicateDomain
\* answers true, and the input is rejected with 'This server has been
\* added.', if and only if some record of the collection has the url
\* formatUrl(input), character for character.
DuplicateIsExactMatch ==
  [][\A f \in FormIds :
       (flows[f].pc = "idle" /\ flows'[f].pc # "idle")
         => ((/\ flows'[f].pc = "rejected"
              /\ flows'[f].value = ErrorObj(DuplicateMessage))
             <=> \E i \in 1..Len(domains) :
                   /\ domains[i] # Null
                   /\ domains[i].url = formatUrl(flows'[f].input))]_vars

\* C32: the form calls onChange only in a step after which the new record
\* is the last record of the store; in the step in which checkDomain
\* rejects, the store is unchanged, addDomain has not been called (no icon
\* was requested), the error is shown by alert and the button reads
\* 'Connect' again.
FormAddThenChange ==
  [][\A f \in FormIds :
       /\ (flows[f].pc # "resolved" /\ flows'[f].pc = "resolved")
            => /\ Len(domains') > 0
               /\ domains'[Len(domains')] = flows'[f].serverConf
       /\ (flows[f].pc # "rejected" /\ flows'[f].pc = "rejected")
            => /\ domains' = domains
               /\ flows'[f].iconUrl = Null
               /\ flows'[f].iconRequests = 0
               /\ Alert(flows'[f].value) \in shown'
               /\ flows'[f].value # Undefined
               /\ saveServerButton(flows'[f]) = "Connect"]_vars

\* C32 witness: a submission was rejected and its error shown, the same
\* input was submitted again, and the record it led to was appended
FormResubmitted ==
  \E f \in FormIds :
    /\ flows[f].pc = "resolved"
    /\ \E e \in shown : e.type = "alert"
    /\ domains[Len(domains)] = flows[f].serverConf

\* C33: when a refresh writes the record at its index, and the record
\* stored there has loggedIn = true, the record it writes has loggedIn =
\* true as well.
LoggedInSurvivesRefresh ==
  [][\A f \in RefreshIds :
       (/\ Writes(f)
        /\ flows[f].index < Len(domains)
        /\ domains[flows[f].index + 1] # Null
        /\ "loggedIn" \in DOMAIN domains[flows[f].index + 1]
        /\ domains[flows[f].index + 1].loggedIn)
         => (/\ "loggedIn" \in DOMAIN domains'[flows[f].index + 1]
             /\ domains'[flows[f].index + 1].loggedIn)]_vars

\* C34: while no record is added or removed, the step in which a refresh
\* writes leaves the length of the collection and every record at another
\* index as they were, and after it every refresh that has written still
\* finds its own record at its own index, in whatever order they ended.
RefreshesIndependent ==
  [][\A f \in RefreshIds :
       Writes(f)
         => /\ Len(domains') = Len(domains)
            /\ \A i \in 1..Len(domains) :
                 i # flows[f].index + 1 => domains'[i] = domains[i]
            /\ \A g \in RefreshIds :
                 flows'[g].pc = "resolved"
                   => domains'[flows'[g].index + 1] = flows'[g].serverConf]_vars

\* C34 witness: the refreshes of two servers have both written a record
\* obtained from a valid answer
RefreshesBothWritten ==
  \E f, g \in RefreshIds :
    /\ f # g
    /\ flows[f].pc = "resolved" /\ flows[f].verified
    /\ flows[g].pc = "resolved" /\ flows[g].verified
    /\ domains[flows[f].index + 1] = flows[f].serverConf
    /\ domains[flows[g].index + 1] = flows[g].serverConf

\* a bound on the tabs ever pushed between two reloadView
MaxTabs == 4

\* the handler of 'open-settings' and the click on the settings button
openSettings ==
  /\ "tabs" \in started
  /\ "Settings" \in DOMAIN functionalTabs \/ Len(tabs) < MaxTabs
  /\ Shows(openFunctionalTab(View, "Settings"))
  /\ UNCHANGED <<domains, flows, started, db, bootVars, shown, restVars,
                 refreshOrder>>

\* the handler of 'open-about'
openAbout ==
  /\ "tabs" \in started
  /\ "About" \in DOMAIN functionalTabs \/ Len(tabs) < MaxTabs
  /\ Shows(openFunctionalTab(View, "About"))
  /\ UNCHANGED <<domains, flows, started, db, bootVars, shown, restVars,
                 refreshOrder>>

\* the onClick of the tab at index: activateLastTab for a server, which
\* has the main process save lastActiveTab, and activateTab for a
\* functional tab
clickTab(index) ==
  /\ "tabs" \in started
  /\ TabAt(tabs, index) # Undefined
  /\ Shows(activateTab(View, index, TRUE))
  /\ lastActiveTab' = (IF tabs[index + 1].role = "server"
                         THEN index ELSE lastActiveTab)
  /\ UNCHANGED <<domains, flows, started, db, bootVars, shown, corrupt, call,
                 refreshOrder, dndVars>>

\* the onDestroy of the functional tab name
closeTab(name) ==
  /\ "tabs" \in started
  /\ name \in DOMAIN functionalTabs
  /\ Shows(destroyTab(View, name, functionalTabs[name]))
  /\ UNCHANGED <<domains, flows, started, db, bootVars, shown, restVars,
                 refreshOrder>>

\* the handler of 'reload-viewer': it reads the props of the active tab,
\* which throws when that tab has been deleted, saves its index, and
\* builds the tabs again, which starts the refreshes of the servers again
reloadView ==
  LET active == TabAt(tabs, activeTabIndex)
  IN /\ "ipcs" \in started
     /\ IF active = Undefined
          THEN /\ shown' = shown \cup {Uncaught("reload-viewer")}
               /\ UNCHANGED <<flows, db, lastActiveTab, viewVars>>
          ELSE /\ lastActiveTab' = active.index
               /\ Shows(tabsOpened(destroyView(View), domains, active.index,
                                   presetOrgs))
               /\ refreshOrder' = refreshOrderOf(domains, active.index)
               /\ flows' = refreshTabs(flows, domains)
               /\ db' = [db EXCEPT !["main"] = Loaded(domains)]
               /\ UNCHANGED shown
     /\ UNCHANGED <<domains, started, bootVars, corrupt, call, dndVars>>

OpenTab == openSettings \/ openAbout

ClickTab == \E index \in 0..(MaxTabs - 1) : clickTab(index)

CloseTab == \E name \in {"Settings", "About"} : closeTab(name)

NextView == init \/ initTabs \/ OpenTab \/ ClickTab \/ CloseTab \/ reloadView

\* the main window starts, with or without preset organizations, and the
\* user opens, selects and closes tabs and reloads the view while the
\* requests of the start-up are in flight
SpecView == Init /\ [][NextView]_vars

\* C36: activeTabIndex is -1 or the index of a tab that still exists
ActiveTabExists ==
  activeTabIndex = -1 \/ TabAt(tabs, activeTabIndex) # Undefined

\* the main window starts on a domain file an earlier run left, with any
\* saved lastActiveTab, and refreshes the servers
SpecLastTab == InitSaved /\ [][NextTabs]_vars

\* C35: the step of initTabs on a collection that is not empty activates
\* an existing tab whose index is smaller than the length of the
\* collection, the saved lastActiveTab when that is such an index; the
\* first refresh it starts is the one of that tab, and it starts one
\* refresh for every index of the collection and no more.
InitTabsOpensLastTab ==
  [][(/\ started \cap {"tabs", "tabsThrew"} = {}
      /\ started' \cap {"tabs", "tabsThrew"} # {}
      /\ Len(domains) > 0)
       => /\ activeTabIndex' \in 0..(Len(domains) - 1)
          /\ TabAt(tabs', activeTabIndex') # Undefined
          /\ lastActiveTab < Len(domains) => activeTabIndex' = lastActiveTab
          /\ Len(refreshOrder') = Len(domains)
          /\ refreshOrder'[1] = activeTabIndex'
          /\ \A i \in 0..(Len(domains) - 1) :
               /\ \E k \in 1..Len(refreshOrder') : refreshOrder'[k] = i
               /\ Cardinality({f \in RefreshIds :
                                 /\ flows'[f].kind = "refresh"
                                 /\ flows'[f].pc # "idle"
                                 /\ flows'[f].index = i}) = 1
          /\ \A f \in RefreshIds :
               flows'[f].kind = "refresh" => flows'[f].index < Len(domains)]_vars

\* the settings file and the platform are any; the domain file is empty
InitDnd ==
  /\ domains = <<>>
  /\ flows = [f \in FlowIds |-> IdleFlow]
  /\ started = {}
  /\ db = [c \in Contexts |->
             IF c = "main" THEN Loaded(domains) ELSE Unloaded]
  /\ presetOrgs = <<>>
  /\ preAddedDomains = <<>>
  /\ shown = {}
  /\ lastActiveTab = 0
  /\ corrupt = FALSE
  /\ call = NoCall
  /\ tabs = NoView.tabs
  /\ activeTabIndex = NoView.activeTabIndex
  /\ functionalTabs = NoView.functionalTabs
  /\ refreshOrder = <<>>
  /\ platform \in Platforms
  /\ config \in Configs(platform)

\* the click on the do-not-disturb button.  call keeps what the settings
\* were before the call and, in since, before the call of toggle that
\* came directly before it
toggleDnd ==
  /\ config' = toggle(config, platform).config
  /\ call' = [op |-> "toggle", arg |-> Snapshot(config, platform),
              result |-> [dnd |-> toggle(config, platform).dnd,
                          newSettings |-> toggle(config, platform).newSettings],
              since |-> IF call.op = "toggle" THEN call.arg ELSE Undefined]
  /\ UNCHANGED <<domains, flows, started, db, bootVars, shown, lastActiveTab,
                 corrupt, viewVars, platform>>

\* the click on the option 'silent' of the settings page
silentOption ==
  /\ config' = setConfigItem(config, "silent",
                             Bool(~getConfigItem(config, "silent",
                                                 Bool(TRUE)).b))
  /\ call' = [op |-> "setConfigItem", arg |-> Str(<<"s","i","l","e","n","t">>),
              result |-> Undefined]
  /\ UNCHANGED <<domains, flows, started, db, bootVars, shown, lastActiveTab,
                 corrupt, viewVars, platform>>

NextDnd == toggleDnd \/ silentOption

SpecDnd == InitDnd /\ [][NextDnd]_vars

\* C37: directly after a call of toggle that enables do-not-disturb,
\* showNotification is false and silent is true; directly after a call
\* that disables it and follows, with no other change of the settings, a
\* call that enabled it, dnd, showNotification, silent and, on win32,
\* flashTaskbarOnMessage are what they were before the enabling call.
DndRoundTrip ==
  call.op = "toggle"
    => /\ call.result.dnd
            => /\ config.showNotification = Bool(FALSE)
               /\ config.silent = Bool(TRUE)
               /\ config.dnd = Bool(TRUE)
       /\ (~call.result.dnd /\ call.since # Undefined /\ ~call.since.dnd.b)
            => Snapshot(config, platform) = call.since

\* C37 witness: on win32 do-not-disturb was enabled and then disabled, and
\* the settings it has restored are not the default ones
DndRestored ==
  /\ call.op = "toggle"
  /\ ~call.result.dnd
  /\ call.since # Undefined
  /\ ~call.since.dnd.b
  /\ platform = "win32"
  /\ config.showNotification = Bool(FALSE)
  /\ config.silent = Bool(TRUE)
  /\ config.flashTaskbarOnMessage = Bool(FALSE)

====
